---- MODULE Spec2Model ----
(***************************************************************************)
(* A model of the Location Recommender Agent: the rule-based intent        *)
(* parser with its optional LLM refinement, the slot policy, candidate     *)
(* construction / filtering / scoring, the orchestrator's run and the chat *)
(* session loop of app.py that threads SessionMemory through the turns.    *)
(*                                                                         *)
(* Texts are strings and are handled character by character, the way the  *)
(* Python code and its regular expressions handle them.  An optional       *)
(* value (Python's None or a value) is a tuple: <<>> is None, <<v>> is v.  *)
(* Flight hours are integers counting tenths of an hour, scores are        *)
(* integers counting hundredths of a point.                                *)
(***************************************************************************)
EXTENDS Integers, Sequences, FiniteSets, TLC

VARIABLES
    memory,                      \* st.session_state.memory (SessionMemory)
    pending_weather_question,    \* st.session_state.pending_weather_question
    pending_clarification_slot,  \* st.session_state.pending_clarification_slot
    draft_query,                 \* st.session_state.draft_query
    last_query,                  \* st.session_state.last_query
    last_recommendations,        \* st.session_state.last_recommendations
    turn,                        \* what the last handler did (observation only)
    probe                        \* a pure function applied to drawn inputs

vars == <<memory, pending_weather_question, pending_clarification_slot,
          draft_query, last_query, last_recommendations, turn, probe>>

sessionVars == <<memory, pending_weather_question, pending_clarification_slot,
                 draft_query, last_query, last_recommendations, turn>>

-----------------------------------------------------------------------------
(* Optional values.                                                        *)

None == <<>>
Some(v) == <<v>>
Val(o) == o[1]
\* Python truthiness of an optional string: neither None nor "".
Truthy(o) == o # None /\ Val(o) # ""
\* v named once: Op is applied to the value of v
Bind(v, Op(_)) == Op(v)
\* the least element of a set of positive numbers, 0 for the empty set
LeastOr0(S) == IF S = {} THEN 0 ELSE CHOOSE i \in S : \A j \in S : i <= j

\* Python's `a or b` on optional strings.
OrElse(a, b) == IF Truthy(a) THEN a ELSE b

-----------------------------------------------------------------------------
(* Python string primitives, character by character.                       *)

Char(s, i) == SubSeq(s, i, i)
CharsOf(s) == {Char(s, i) : i \in 1..Len(s)}

LowerChars == "abcdefghijklmnopqrstuvwxyz"
UpperChars == "ABCDEFGHIJKLMNOPQRSTUVWXYZ"
DigitChars == "0123456789"
LowerSet == CharsOf(LowerChars)
UpperSet == CharsOf(UpperChars)
DigitSet == CharsOf(DigitChars)
AlphaSet == LowerSet \cup UpperSet
\* \w of the regular expressions
WordSet == AlphaSet \cup DigitSet \cup {"_"}
\* \s of the regular expressions, str.split() and str.isspace()
WhiteSpace == {" ", "\t", "\n"}
ToLower == [c \in UpperSet |-> Char(LowerChars, CHOOSE i \in 1..26 : Char(UpperChars, i) = c)]
ToUpper == [c \in LowerSet |-> Char(UpperChars, CHOOSE i \in 1..26 : Char(LowerChars, i) = c)]
DigitValue == [c \in DigitSet |-> (CHOOSE i \in 1..10 : Char(DigitChars, i) = c) - 1]

lower_char(c) == IF c \in UpperSet THEN ToLower[c] ELSE c
upper_char(c) == IF c \in LowerSet THEN ToUpper[c] ELSE c

\* the concatenation of the strings parts[i], ..., parts[j]
RECURSIVE Join(_, _, _)
Join(parts, i, j) ==
    IF i > j THEN ""
    ELSE IF i = j THEN parts[i]
    ELSE Join(parts, i, (i + j) \div 2) \o Join(parts, (i + j) \div 2 + 1, j)

\* str.lower()
str_lower(s) == Join([i \in 1..Len(s) |-> lower_char(Char(s, i))], 1, Len(s))

\* str.title(): a letter is upper-cased after a non-letter, lower-cased after a letter
str_title(s) ==
    Join([i \in 1..Len(s) |-> IF i > 1 /\ Char(s, i - 1) \in AlphaSet
                              THEN lower_char(Char(s, i)) ELSE upper_char(Char(s, i))],
         1, Len(s))

\* the last index of the longest run of characters of cs that starts at i (i - 1: no run)
RunEnd(s, i, cs) ==
    IF i > Len(s) THEN i - 1
    ELSE LeastOr0({j \in i..(Len(s) + 1) : j > Len(s) \/ Char(s, j) \notin cs}) - 1
\* the last index of the longest run of characters outside cs that starts at i
RunEndNot(s, i, cs) ==
    IF i > Len(s) THEN i - 1
    ELSE LeastOr0({j \in i..(Len(s) + 1) : j > Len(s) \/ Char(s, j) \in cs}) - 1

\* str.lstrip(chars), str.rstrip(chars), str.strip(chars)
str_lstrip(s, cs) == SubSeq(s, RunEnd(s, 1, cs) + 1, Len(s))
RECURSIVE str_rstrip(_, _)
str_rstrip(s, cs) ==
    IF s # "" /\ Char(s, Len(s)) \in cs THEN str_rstrip(SubSeq(s, 1, Len(s) - 1), cs) ELSE s
str_strip(s, cs) == str_rstrip(str_lstrip(s, cs), cs)

\* `p in s`
Contains(s, p) == \E i \in 1..(Len(s) - Len(p) + 1) : SubSeq(s, i, i + Len(p) - 1) = p
ContainsAny(s, ps) == \E p \in ps : Contains(s, p)
\* whether p occurs in s at index i
StartsAt(s, p, i) == i >= 1 /\ i + Len(p) - 1 <= Len(s) /\ SubSeq(s, i, i + Len(p) - 1) = p
\* the least index >= from at which p occurs in s, 0 when there is none
FindFrom(s, p, from) ==
    LeastOr0({i \in from..(Len(s) - Len(p) + 1) : SubSeq(s, i, i + Len(p) - 1) = p})

\* len(s.split()): the number of maximal runs of non-whitespace
TokenCount(s) ==
    Cardinality({i \in 1..Len(s) : /\ Char(s, i) \notin WhiteSpace
                                   /\ (i = 1 \/ Char(s, i - 1) \in WhiteSpace)})

\* s.split(sep)[0]
SplitFirst(s, sep) ==
    Bind(FindFrom(s, sep, 1), LAMBDA i : IF i = 0 THEN s ELSE SubSeq(s, 1, i - 1))
\* s.split(sep, 1)[1] when sep occurs in s
SplitRest(s, sep) ==
    Bind(FindFrom(s, sep, 1), LAMBDA i : SubSeq(s, i + Len(sep), Len(s)))

\* \b of the regular expressions: a word boundary just before index i
IsWordAt(s, i) == i >= 1 /\ i <= Len(s) /\ Char(s, i) \in WordSet
WordBoundary(s, i) == IsWordAt(s, i - 1) # IsWordAt(s, i)

\* Tenths of an hour for a whole number of hours.
Tenths(n) == n * 10

\* the digits s[i..j] read as a decimal number
RECURSIVE DigitsValue(_, _, _)
DigitsValue(s, i, j) == IF j < i THEN 0 ELSE DigitsValue(s, i, j - 1) * 10 + DigitValue[Char(s, j)]

\* float(s) for s of the form [-]digits[.digits], in tenths (further decimals are
\* dropped); None stands for ValueError.
ParseFloat(s0) ==
    Bind(str_strip(s0, WhiteSpace), LAMBDA s :
    Bind(IF s # "" /\ Head(s) = "-" THEN 2 ELSE 1, LAMBDA b :
    Bind(RunEnd(s, b, DigitSet), LAMBDA e :
    Bind(e < Len(s) /\ Char(s, e + 1) = ".", LAMBDA hasFrac :
    Bind(IF hasFrac THEN RunEnd(s, e + 2, DigitSet) ELSE e, LAMBDA fe :
    Bind(Tenths(DigitsValue(s, b, e))
           + (IF hasFrac /\ fe >= e + 2 THEN DigitValue[Char(s, e + 2)] ELSE 0), LAMBDA tenths :
        IF ~(fe = Len(s) /\ (e >= b \/ (hasFrac /\ fe >= e + 2))) THEN None
        ELSE Some(IF b = 2 THEN 0 - tenths ELSE tenths)))))))

-----------------------------------------------------------------------------
(* src/agent/intent_parser.py: the rule-based parser.                       *)

\* ParsedIntent: intent, destination, activity, travel_date_or_month are
\* strings (the last three optional), max_flight_hours an optional number.
ParsedIntent(intent, destination, activity, date, hours, raw) ==
    [intent |-> intent, destination |-> destination, activity |-> activity,
     travel_date_or_month |-> date, max_flight_hours |-> hours, raw_text |-> raw]

\* a variant of the enum that also admits a fourth value
ALLOWED_INTENTS_AND_BOOKING ==
    {"destination_opinion", "activity_based_discovery", "constraint_based_discovery",
     "book_flight"}

ALLOWED_INTENTS ==
    {"destination_opinion", "activity_based_discovery", "constraint_based_discovery"}

\* the month alternation of the regular expressions
MonthNames == <<"january", "february", "march", "april", "may", "june", "july",
                "august", "september", "october", "november", "december">>
MonthSet == {MonthNames[i] : i \in 1..Len(MonthNames)}

\* \b(january|...|december)\b matched at index i: the month, or None
MonthAt(s, i) ==
    Bind({m \in MonthSet :
            StartsAt(s, m, i) /\ WordBoundary(s, i) /\ WordBoundary(s, i + Len(m))},
         LAMBDA ms : IF ms = {} THEN None ELSE Some(CHOOSE m \in ms : TRUE))

\* re.sub(r"\b(january|...|december)\b", "", s)
RemoveMonths(s) ==
    Bind({k \in 1..Len(s) : MonthAt(s, k) # None}, LAMBDA starts :
        Join([i \in 1..Len(s) |->
                IF \E k \in starts : k <= i /\ i < k + Len(Val(MonthAt(s, k)))
                THEN "" ELSE Char(s, i)], 1, Len(s)))

\* re.sub(r"\s+", " ", s)
CollapseSpaces(s) ==
    Join([i \in 1..Len(s) |->
            IF Char(s, i) \notin WhiteSpace THEN Char(s, i)
            ELSE IF i > 1 /\ Char(s, i - 1) \in WhiteSpace THEN "" ELSE " "], 1, Len(s))

\* The tail \s*([^|]+) of a slot pattern, matched from index a: <<first, last>> of
\* the group, <<0, 0>> when it does not match.  \s* is greedy and gives one
\* whitespace character back when what follows it is "|" or the end of the text.
GroupAfter(s, a) ==
    Bind(RunEnd(s, a, WhiteSpace), LAMBDA w :
        IF w + 1 <= Len(s) /\ Char(s, w + 1) # "|"
        THEN <<w + 1, RunEndNot(s, w + 1, {"|"})>>
        ELSE IF w >= a THEN <<w, w>> ELSE <<0, 0>>)

\* re.search(key + r":\s*([^|]+)", s).group(1), or None
ExplicitGroup(s, key) ==
    Bind(key \o ":", LAMBDA lit :
    Bind(LeastOr0({i \in 1..Len(s) : StartsAt(s, lit, i) /\ GroupAfter(s, i + Len(lit))[1] > 0}),
         LAMBDA i :
        IF i = 0 THEN None
        ELSE Bind(GroupAfter(s, i + Len(lit)), LAMBDA g : Some(SubSeq(s, g[1], g[2])))))

\* _extract_explicit_slots: a slot is None when its key is not in the dict
_extract_explicit_slots(text) ==
    LET val(key) == Bind(ExplicitGroup(text, key), LAMBDA g :
                        IF g = None THEN None
                        ELSE Some(str_strip(Val(g), {" ", ".", ",", "?"})))
    IN [destination |-> val("destination"),
        activity |-> val("activity"),
        travel_date_or_month |-> val("travel_date_or_month"),
        max_flight_hours |-> Bind(val("max_flight_hours"), LAMBDA h :
                                 IF h = None THEN None ELSE ParseFloat(Val(h)))]

\* _is_generic_destination_phrase
_is_generic_destination_phrase(value) ==
    Bind(str_strip(str_lower(value), WhiteSpace), LAMBDA lowered :
        \/ lowered \in {"place", "places", "destination", "somewhere", "anywhere",
                        "sunny place", "warm place", "cold place"}
        \/ ContainsAny(lowered, {" place", "destination", "somewhere", "anywhere"}))

\* re.sub(r"\|\s*travel_date_or_month:\s*[^|]+", "", s); the code applies it to
\* lower-cased text only, so IGNORECASE changes nothing
DateSlotEnd(s, i) ==
    IF Char(s, i) # "|" THEN 0
    ELSE Bind(RunEnd(s, i + 1, WhiteSpace) + 1, LAMBDA a :
            IF StartsAt(s, "travel_date_or_month:", a)
            THEN GroupAfter(s, a + Len("travel_date_or_month:"))[2]
            ELSE 0)
RemoveDateSlot(s) ==
    Bind({k \in 1..Len(s) : DateSlotEnd(s, k) > 0}, LAMBDA starts :
        Join([i \in 1..Len(s) |->
                IF \E k \in starts : k <= i /\ i <= DateSlotEnd(s, k)
                THEN "" ELSE Char(s, i)], 1, Len(s)))

\* the three destination patterns, in the order the code tries them
DestinationPrefixes == <<"to ", "going to ", "in ">>
DestinationClass == AlphaSet \cup WhiteSpace

\* re.search(prefix + r"([a-zA-Z\s]+)", s).group(1), or None
PrefixGroup(s, prefix) ==
    Bind(LeastOr0({i \in 1..Len(s) :
                    /\ StartsAt(s, prefix, i)
                    /\ i + Len(prefix) <= Len(s)
                    /\ Char(s, i + Len(prefix)) \in DestinationClass}), LAMBDA i :
        IF i = 0 THEN None
        ELSE Some(SubSeq(s, i + Len(prefix), RunEnd(s, i + Len(prefix), DestinationClass))))

\* the single-phrase fallback of _extract_destination
SimpleDestination(cleaned) ==
    Bind(str_strip(cleaned, {" ", "?", ".", ","}), LAMBDA simple :
        IF /\ simple # ""
           /\ TokenCount(simple) <= 3
           /\ \A i \in 1..Len(simple) : Char(simple, i) \in AlphaSet \cup WhiteSpace
           /\ ~_is_generic_destination_phrase(simple)
        THEN Some(str_title(simple))
        ELSE None)

\* the pattern loop of _extract_destination from pattern k on
RECURSIVE DestinationFromPattern(_, _)
DestinationFromPattern(cleaned, k) ==
    IF k > Len(DestinationPrefixes) THEN SimpleDestination(cleaned)
    ELSE Bind(PrefixGroup(cleaned, DestinationPrefixes[k]), LAMBDA g :
            IF g = None THEN DestinationFromPattern(cleaned, k + 1)
            ELSE Bind(str_strip(RemoveMonths(str_strip(Val(g), {" ", "?", ".", ","})),
                                {" ", ",", ".", "-"}), LAMBDA candidate :
                    IF _is_generic_destination_phrase(candidate) THEN None
                    ELSE IF Len(candidate) > 2 THEN Some(str_title(candidate))
                    ELSE DestinationFromPattern(cleaned, k + 1)))

\* _extract_destination
_extract_destination(text) ==
    DestinationFromPattern(
        str_strip(CollapseSpaces(RemoveMonths(RemoveDateSlot(text))), WhiteSpace), 1)

\* \d{1,2}[./-]\d{1,2}(?:[./-]\d{2,4})? : the digit counts the expression tries,
\* in the order its greedy quantifiers try them (0: without the year group)
DateShapes ==
    <<<<2, 2, 4>>, <<2, 2, 3>>, <<2, 2, 2>>, <<2, 2, 0>>,
      <<2, 1, 4>>, <<2, 1, 3>>, <<2, 1, 2>>, <<2, 1, 0>>,
      <<1, 2, 4>>, <<1, 2, 3>>, <<1, 2, 2>>, <<1, 2, 0>>,
      <<1, 1, 4>>, <<1, 1, 3>>, <<1, 1, 2>>, <<1, 1, 0>>>>
DateSeparators == {".", "/", "-"}
AllDigits(s, i, n) == i + n - 1 <= Len(s) /\ \A j \in i..(i + n - 1) : Char(s, j) \in DigitSet
\* the last index of the date of shape sh matched at i, 0 when it does not match
DateShapeEnd(s, i, sh) ==
    LET p2 == i + sh[1] + 1
        e2 == p2 + sh[2] - 1
        e3 == e2 + 1 + sh[3]
    IN IF ~(/\ WordBoundary(s, i)
            /\ AllDigits(s, i, sh[1])
            /\ i + sh[1] <= Len(s) /\ Char(s, i + sh[1]) \in DateSeparators
            /\ AllDigits(s, p2, sh[2])) THEN 0
       ELSE IF sh[3] = 0 THEN (IF WordBoundary(s, e2 + 1) THEN e2 ELSE 0)
       ELSE IF /\ e2 + 1 <= Len(s) /\ Char(s, e2 + 1) \in DateSeparators
               /\ AllDigits(s, e2 + 2, sh[3])
               /\ WordBoundary(s, e3 + 1)
            THEN e3 ELSE 0
DateEnd(s, i) ==
    Bind(LeastOr0({k \in 1..Len(DateShapes) : DateShapeEnd(s, i, DateShapes[k]) > 0}),
         LAMBDA k : IF k = 0 THEN 0 ELSE DateShapeEnd(s, i, DateShapes[k]))

\* _extract_date_or_month
_extract_date_or_month(text) ==
    Bind(str_lower(text), LAMBDA lowered :
    Bind(LeastOr0({i \in 1..Len(lowered) : MonthAt(lowered, i) # None}), LAMBDA m :
        IF m # 0 THEN MonthAt(lowered, m)
        ELSE Bind(LeastOr0({i \in 1..Len(text) : DateEnd(text, i) > 0}), LAMBDA d :
                IF d # 0 THEN Some(SubSeq(text, d, DateEnd(text, d))) ELSE None)))

\* (\d+(?:\.\d+)?)\s*hour matched at i: the last index of group 1, 0 when no match
HoursGroupEnd(s, i) ==
    IF ~(i <= Len(s) /\ Char(s, i) \in DigitSet) THEN 0
    ELSE Bind(RunEnd(s, i, DigitSet), LAMBDA e :
         Bind(IF e + 2 <= Len(s) /\ Char(s, e + 1) = "." /\ Char(s, e + 2) \in DigitSet
              THEN RunEnd(s, e + 2, DigitSet) ELSE e, LAMBDA fe :
            LET hourAfter(j) == StartsAt(s, "hour", RunEnd(s, j + 1, WhiteSpace) + 1)
            IN IF hourAfter(fe) THEN fe ELSE IF hourAfter(e) THEN e ELSE 0))

\* _extract_max_flight_hours
_extract_max_flight_hours(text) ==
    Bind(LeastOr0({i \in 1..Len(text) : HoursGroupEnd(text, i) > 0}), LAMBDA i :
        IF i = 0 THEN None ELSE ParseFloat(SubSeq(text, i, HoursGroupEnd(text, i))))

\* a variant that knows only the phrases naming the flight
no_flight_limit_phrase_only(text) ==
    ContainsAny(text, {"no flight limit", "without flight limit"})

\* _has_no_limit_phrase
_has_no_limit_phrase(text) ==
    ContainsAny(text, {"no limit", "without limit", "without duration limitation",
                       "without duration limit", "no duration limit", "no flight limit",
                       "without flight limit"})

\* _extract_weather_preference_from_query
_extract_weather_preference_from_query(text) ==
    Bind(str_lower(text), LAMBDA lowered :
        IF ContainsAny(lowered, {"cold place", "cold places", "cold weather"}) THEN Some("cold")
        ELSE IF ContainsAny(lowered, {"warm place", "warm places", "warm weather"}) THEN Some("warm")
        ELSE IF ContainsAny(lowered, {"mild weather", "mild place", "mild places"}) THEN Some("mild")
        ELSE None)

\* _infer_intent
_infer_intent(lowered, destination, activity, max_hours) ==
    LET asks_discovery ==
            ContainsAny(lowered, {"where should i go", "where to go", "recommend destination",
                                  "places to go", "offer me places", "sunny place", "warm place"})
        has_constraint ==
            \/ max_hours # None
            \/ Contains(lowered, "not more than")
            \/ Contains(lowered, "max flight")
            \/ (Contains(lowered, "within") /\ Contains(lowered, "hour"))
    IN IF activity # None THEN "activity_based_discovery"
       ELSE IF asks_discovery \/ (has_constraint /\ destination = None)
            THEN "constraint_based_discovery"
       ELSE "destination_opinion"

\* the sentinel of "no limit": -1.0 hours
NoLimit == Tenths(0 - 1)

\* _parse_with_rules
_parse_with_rules(text) ==
    Bind(str_lower(text), LAMBDA lowered :
    Bind(_extract_explicit_slots(lowered), LAMBDA explicit :
    Bind(IF Truthy(explicit.activity) THEN explicit.activity
         ELSE IF Contains(lowered, "ski") THEN Some("skiing") ELSE None, LAMBDA activity :
    Bind(IF Truthy(explicit.destination) THEN explicit.destination
         ELSE _extract_destination(lowered), LAMBDA destination :
    Bind(IF Truthy(explicit.travel_date_or_month) THEN explicit.travel_date_or_month
         ELSE _extract_date_or_month(text), LAMBDA date_or_month :
    Bind(IF _has_no_limit_phrase(lowered) THEN Some(NoLimit)
         ELSE IF explicit.max_flight_hours # None THEN explicit.max_flight_hours
         ELSE _extract_max_flight_hours(lowered), LAMBDA max_hours :
        ParsedIntent(_infer_intent(lowered, destination, activity, max_hours),
                     destination, activity, date_or_month, max_hours, text)))))))

\* a variant that keeps only the last guard of _normalize_intent
normalize_enum_only(parsed) ==
    IF parsed.intent \in ALLOWED_INTENTS THEN parsed
    ELSE [parsed EXCEPT !.intent = "destination_opinion"]

\* _normalize_intent, statement by statement
_normalize_intent(parsed) ==
    Bind(IF /\ parsed.intent = "constraint_based_discovery"
            /\ parsed.destination # None
            /\ parsed.max_flight_hours = None
         THEN [parsed EXCEPT !.intent = "destination_opinion"] ELSE parsed, LAMBDA p1 :
    Bind(IF p1.max_flight_hours # None /\ Val(p1.max_flight_hours) < 0
         THEN [p1 EXCEPT !.intent = "constraint_based_discovery"] ELSE p1, LAMBDA p2 :
    Bind(_extract_weather_preference_from_query(str_lower(p2.raw_text)), LAMBDA query_weather :
    Bind(IF query_weather # None /\ p2.activity = None
         THEN [p2 EXCEPT !.activity = Some("weather_preference:" \o Val(query_weather))]
         ELSE p2, LAMBDA p3 :
    Bind(IF Truthy(p3.destination) /\ _is_generic_destination_phrase(Val(p3.destination))
         THEN [p3 EXCEPT !.destination = None,
                         !.intent = IF p3.intent = "destination_opinion"
                                    THEN "constraint_based_discovery" ELSE p3.intent]
         ELSE p3, LAMBDA p4 :
        IF p4.intent \notin ALLOWED_INTENTS
        THEN [p4 EXCEPT !.intent = "destination_opinion"] ELSE p4)))))

-----------------------------------------------------------------------------
(* src/agent/intent_parser.py: the LLM refinement.                          *)

\* A JSON value of the reply: null, a string or a number.
JNull == <<"null">>
JStr(s) == <<"str", s>>
JNum(n) == <<"num", n>>
\* `value or ...` on a JSON string-or-null field: the string when it is truthy
\* (a number 0 is falsy as well)
JOpt(v) == IF v[1] = "str" /\ v[2] # "" THEN Some(v[2]) ELSE None

\* What llm_client.generate_json and json.loads make of one call:
\*   "raises"      generate_json raises (no credentials, network, no JSON found)
\*   "not_json"    json.loads raises on the returned text
\*   "not_object"  the text is JSON but not an object (llm_data.get raises)
\*   "object"      a JSON object with the five fields
LlmRaises == [kind |-> "raises"]
LlmReply(intent, destination, activity, date, hours) ==
    [kind |-> "object", intent |-> intent, destination |-> destination,
     activity |-> activity, travel_date_or_month |-> date, max_flight_hours |-> hours]

\* _sanitize_llm_intent: the values it can return.  ALLOWED_INTENTS is a Python
\* set of strings, whose iteration order is not fixed: when the value contains
\* several allowed intents, any of them may be returned.
_sanitize_llm_intent(value) ==
    IF value[1] # "str" THEN {None}
    ELSE Bind(str_strip(str_lower(value[2]), WhiteSpace), LAMBDA lowered :
            IF lowered \in ALLOWED_INTENTS THEN {Some(lowered)}
            ELSE IF \A i \in ALLOWED_INTENTS : ~Contains(lowered, i) THEN {None}
            ELSE {Some(i) : i \in {a \in ALLOWED_INTENTS : Contains(lowered, a)}})

\* float(llm_data["max_flight_hours"]) when the field is not None; None: ValueError
LlmHours(v) == IF v[1] = "num" THEN Some(v[2]) ELSE ParseFloat(v[2])

\* Whether building or normalizing the merged intent raises: float() of a string
\* that is no number, or _is_generic_destination_phrase of a destination that is
\* no string (a truthy number has no .lower()).
MergeRaises(llm) ==
    \/ (llm.max_flight_hours # JNull /\ LlmHours(llm.max_flight_hours) = None)
    \/ (llm.destination[1] = "num" /\ llm.destination[2] # 0)

\* a variant of the merge in which the rule-based value wins when there is one
merge_rules_first(parsed, llm, llm_intent, user_text) ==
    ParsedIntent(IF llm_intent # None THEN Val(llm_intent) ELSE parsed.intent,
                 OrElse(parsed.destination, JOpt(llm.destination)),
                 OrElse(parsed.activity, JOpt(llm.activity)),
                 OrElse(parsed.travel_date_or_month, JOpt(llm.travel_date_or_month)),
                 IF parsed.max_flight_hours # None THEN parsed.max_flight_hours
                 ELSE IF llm.max_flight_hours # JNull THEN LlmHours(llm.max_flight_hours)
                 ELSE None,
                 user_text)

\* the ParsedIntent built at lines 44-51 from the reply and the rule-based result
MergedIntent(parsed, llm, llm_intent, user_text) ==
    ParsedIntent(IF llm_intent # None THEN Val(llm_intent) ELSE parsed.intent,
                 OrElse(JOpt(llm.destination), parsed.destination),
                 OrElse(JOpt(llm.activity), parsed.activity),
                 OrElse(JOpt(llm.travel_date_or_month), parsed.travel_date_or_month),
                 IF llm.max_flight_hours # JNull THEN LlmHours(llm.max_flight_hours)
                 ELSE parsed.max_flight_hours,
                 user_text)

\* a variant of parse whose fallback returns the rule-based result as it is
parse_fallback_unnormalized(user_text, llm) ==
    Bind(_parse_with_rules(user_text), LAMBDA parsed :
        IF llm.kind # "object" \/ MergeRaises(llm)
        THEN {[result |-> parsed, refined |-> FALSE, rules |-> parsed, merged |-> None]}
        ELSE {Bind(MergedIntent(parsed, llm, llm_intent, user_text), LAMBDA merged :
                  [result |-> _normalize_intent(merged), refined |-> TRUE,
                   rules |-> parsed, merged |-> Some(merged)])
              : llm_intent \in _sanitize_llm_intent(llm.intent)})

\* IntentParser.parse: the outcomes of one call for a text and an LLM behaviour.
\* result is the ParsedIntent returned; refined tells whether the try block
\* completed; rules and merged are the intermediate records.
IntentParser_parse(user_text, llm) ==
    Bind(_parse_with_rules(user_text), LAMBDA parsed :
        IF llm.kind # "object" \/ MergeRaises(llm)
        THEN {[result |-> _normalize_intent(parsed), refined |-> FALSE,
               rules |-> parsed, merged |-> None]}
        ELSE {Bind(MergedIntent(parsed, llm, llm_intent, user_text), LAMBDA merged :
                  [result |-> _normalize_intent(merged), refined |-> TRUE,
                   rules |-> parsed, merged |-> Some(merged)])
              : llm_intent \in _sanitize_llm_intent(llm.intent)})

-----------------------------------------------------------------------------
(* src/agent/slot_policy.py                                                 *)

REQUIRED_SLOTS_BY_INTENT ==
    [destination_opinion |-> <<"destination", "travel_date_or_month">>,
     activity_based_discovery |-> <<"activity", "travel_date_or_month">>,
     constraint_based_discovery |-> <<"travel_date_or_month">>]

\* a variant that takes only null for empty
SlotIsNull(parsed_intent, slot) == parsed_intent[slot] = None

\* getattr(parsed_intent, slot, None) in (None, "")
SlotIsEmpty(parsed_intent, slot) ==
    IF slot = "max_flight_hours" THEN parsed_intent.max_flight_hours = None
    ELSE parsed_intent[slot] \in {None, Some("")}

\* missing_slots
missing_slots(parsed_intent) ==
    LET required0 == IF parsed_intent.intent \in DOMAIN REQUIRED_SLOTS_BY_INTENT
                     THEN REQUIRED_SLOTS_BY_INTENT[parsed_intent.intent] ELSE <<>>
        required == IF parsed_intent.max_flight_hours = Some(NoLimit)
                    THEN SelectSeq(required0, LAMBDA slot : slot # "max_flight_hours")
                    ELSE required0
    IN SelectSeq(required, LAMBDA slot : SlotIsEmpty(parsed_intent, slot))

\* a variant that asks for the last missing slot
ask_last_missing(missing) ==
    IF missing = <<>> THEN ""
    ELSE IF missing[Len(missing)] = "travel_date_or_month"
         THEN "What date or month are you planning to travel?"
    ELSE IF missing[Len(missing)] = "destination" THEN "Which destination are you considering?"
    ELSE "Which activity are you most interested in?"

\* next_clarifying_question
next_clarifying_question(missing) ==
    IF missing = <<>> THEN ""
    ELSE LET slot == missing[1]
         IN IF slot = "travel_date_or_month" THEN "What date or month are you planning to travel?"
            ELSE IF slot = "destination" THEN "Which destination are you considering?"
            ELSE IF slot = "activity" THEN "Which activity are you most interested in?"
            ELSE IF slot = "max_flight_hours" THEN "What is your maximum flight duration in hours?"
            ELSE "Could you provide: " \o slot \o "?"

\* a variant that asks skiers too
ask_weather_also_for_skiing(parsed_intent, preferred_weather) == ~Truthy(preferred_weather)

\* a variant that does not look at the preference it is given
ask_weather_unless_skiing(parsed_intent, preferred_weather) ==
    ~(Truthy(parsed_intent.activity) /\ str_lower(Val(parsed_intent.activity)) = "skiing")

\* should_ask_weather_preference
should_ask_weather_preference(parsed_intent, preferred_weather) ==
    IF Truthy(preferred_weather) THEN FALSE
    ELSE IF Truthy(parsed_intent.activity) /\ str_lower(Val(parsed_intent.activity)) = "skiing"
         THEN FALSE
    ELSE TRUE

-----------------------------------------------------------------------------
(* src/agent/session_memory.py                                              *)

\* SessionMemory()
NewSessionMemory ==
    [origin_city |-> None, origin_country |-> None, preferred_weather |-> None,
     rejected_destinations |-> {}, liked_profiles |-> <<>>,
     last_destination |-> None, last_travel_date_or_month |-> None,
     last_activity |-> None, last_max_flight_hours |-> None]

\* SessionMemory.set_origin
set_origin(mem, city, country) ==
    [mem EXCEPT !.origin_city = Some(str_strip(city, WhiteSpace)),
                !.origin_country = Some(str_strip(country, WhiteSpace))]

\* a variant that stores the names as they are written
add_rejections_as_written(mem, destinations) ==
    [mem EXCEPT !.rejected_destinations =
        @ \cup {destinations[i] : i \in 1..Len(destinations)}]

\* SessionMemory.add_rejections
add_rejections(mem, destinations) ==
    [mem EXCEPT !.rejected_destinations =
        @ \cup {str_lower(destinations[i]) : i \in 1..Len(destinations)}]

\* SessionMemory.add_like_profile
add_like_profile(mem, profile) ==
    [mem EXCEPT !.liked_profiles = Append(@, profile)]

\* SessionMemory.has_origin
has_origin(mem) == Truthy(mem.origin_city) /\ Truthy(mem.origin_country)

\* a variant that overwrites the last-turn context with whatever was parsed
update_overwriting(mem, parsed) ==
    [mem EXCEPT !.last_destination = parsed.destination,
                !.last_travel_date_or_month = parsed.travel_date_or_month,
                !.last_activity = parsed.activity,
                !.last_max_flight_hours = parsed.max_flight_hours]

\* SessionMemory.update_from_parsed
update_from_parsed(mem, parsed) ==
    [mem EXCEPT
        !.last_destination = IF Truthy(parsed.destination) THEN parsed.destination ELSE @,
        !.last_travel_date_or_month =
            IF Truthy(parsed.travel_date_or_month) THEN parsed.travel_date_or_month ELSE @,
        !.last_activity = IF Truthy(parsed.activity) THEN parsed.activity ELSE @,
        !.last_max_flight_hours =
            IF parsed.max_flight_hours # None THEN parsed.max_flight_hours ELSE @]

-----------------------------------------------------------------------------
(* src/ranking/scorer.py.  Scores count hundredths of a point; temperatures *)
(* are whole degrees, rain is in tenths of a millimetre, hours in tenths.   *)

Min(a, b) == IF a <= b THEN a ELSE b
Max(a, b) == IF a >= b THEN a ELSE b
Abs(a) == IF a >= 0 THEN a ELSE 0 - a

\* travel_date_or_month.replace("-", ".").split(".")[1], None when there is no
\* second part (IndexError)
SecondDatePart(s) ==
    Bind(RunEndNot(s, 1, {".", "-"}), LAMBDA e1 :
        IF e1 >= Len(s) THEN None
        ELSE Some(SubSeq(s, e1 + 2, RunEndNot(s, e1 + 2, {".", "-"}))))

\* int(part): optional surrounding whitespace, optional sign, digits; None: ValueError
ParseInt(part) ==
    Bind(str_strip(part, WhiteSpace), LAMBDA t :
    Bind(IF t # "" /\ Head(t) \in {"+", "-"} THEN 2 ELSE 1, LAMBDA b :
        IF ~(b <= Len(t) /\ RunEnd(t, b, DigitSet) = Len(t)) THEN None
        ELSE Some(IF Head(t) = "-" THEN 0 - DigitsValue(t, b, Len(t))
                  ELSE DigitsValue(t, b, Len(t)))))

\* season_from_date_or_month
season_from_date_or_month(travel_date_or_month) ==
    Bind(str_lower(travel_date_or_month), LAMBDA lower :
        IF lower \in {"december", "january", "february"} THEN "winter"
        ELSE IF lower \in {"march", "april", "may"} THEN "spring"
        ELSE IF lower \in {"june", "july", "august"} THEN "summer"
        ELSE IF lower \in {"september", "october", "november"} THEN "autumn"
        ELSE Bind(SecondDatePart(travel_date_or_month), LAMBDA part :
             Bind(IF part = None THEN None ELSE ParseInt(Val(part)), LAMBDA month :
                IF month = None THEN "unknown"
                ELSE IF Val(month) \in {12, 1, 2} THEN "winter"
                ELSE IF Val(month) \in {3, 4, 5} THEN "spring"
                ELSE IF Val(month) \in {6, 7, 8} THEN "summer"
                ELSE "autumn")))

\* a variant whose winter skiing bonus is not capped at 40
activity_score_uncapped_bonus(candidate, activity, season) ==
    LET base == Min(4000, candidate.poi_count * 20)
    IN IF ~Truthy(activity) THEN base
       ELSE IF str_lower(Val(activity)) = "skiing"
            THEN (IF season = "winter" THEN base + 1200 ELSE Max(500, base - 1500))
       ELSE base

\* _activity_score
_activity_score(candidate, activity, season) ==
    LET base == Min(4000, candidate.poi_count * 20)
    IN IF ~Truthy(activity) THEN base
       ELSE IF str_lower(Val(activity)) = "skiing"
            THEN (IF season = "winter" THEN Min(4000, base + 1200) ELSE Max(500, base - 1500))
       ELSE base

\* _weather_score: |avg - target| is |max_temp + min_temp - 2 * target| / 2
_weather_score(candidate, preferred_weather) ==
    LET twice == candidate.max_temp + candidate.min_temp
        start == 2000 - Min(1000, candidate.rain * 12)
        pref == IF Truthy(preferred_weather) THEN str_lower(Val(preferred_weather))
                ELSE "no_preference"
        closeness(target) == Max(0, 1000 - Abs(twice - 2 * target) * 50)
        score == IF pref = "cold" THEN start + closeness(8)
                 ELSE IF pref = "mild" THEN start + closeness(18)
                 ELSE IF pref = "warm" THEN start + closeness(27)
                 ELSE start + 600
    IN Max(0, Min(3000, score))

\* a variant that reads the sentinel -1 as no limit
flight_score_sentinel_unlimited(candidate, max_flight_hours) ==
    LET est == candidate.estimated_flight_hours
    IN IF est = None THEN 800
       ELSE IF max_flight_hours = None \/ max_flight_hours = Some(NoLimit)
            THEN Max(0, Min(2000, 2000 - Val(est) * 16))
       ELSE IF Val(est) <= Val(max_flight_hours) THEN 2000
       ELSE Max(0, 2000 - (Val(est) - Val(max_flight_hours)) * 80)

\* _flight_score
_flight_score(candidate, max_flight_hours) ==
    LET est == candidate.estimated_flight_hours
    IN IF est = None THEN 800
       ELSE IF max_flight_hours = None THEN Max(0, Min(2000, 2000 - Val(est) * 16))
       ELSE IF Val(est) <= Val(max_flight_hours) THEN 2000
       ELSE Max(0, 2000 - (Val(est) - Val(max_flight_hours)) * 80)

\* _diversity_score
_diversity_score(candidate) ==
    LET names == {candidate.sample_names[i] : i \in 1..Len(candidate.sample_names)}
    IN Min(1000, 500 + Cardinality(names) * 50)

\* a variant that gives the bonus to the destinations that were liked
like_bonus_by_destination(candidate, liked_profiles) ==
    IF \E i \in 1..Len(liked_profiles) :
          liked_profiles[i].destination = candidate.destination
    THEN 300 ELSE 0

\* _like_similarity_bonus
_like_similarity_bonus(candidate, liked_profiles) ==
    IF liked_profiles = <<>> THEN 0
    ELSE IF \E i \in 1..Len(liked_profiles) :
               \/ liked_profiles[i].activity = candidate.activity
               \/ liked_profiles[i].preferred_weather = candidate.preferred_weather
         THEN 300
    ELSE 0

\* score_candidate: the candidate with score and score_breakdown added
score_candidate(candidate, activity, preferred_weather, max_flight_hours, season, liked_profiles) ==
    LET activity_fit == _activity_score(candidate, activity, season)
        weather_fit == _weather_score(candidate, preferred_weather)
        flight_fit == _flight_score(candidate, max_flight_hours)
        diversity == _diversity_score(candidate)
        like_bonus == _like_similarity_bonus(candidate, liked_profiles)
        total == activity_fit + weather_fit + flight_fit + diversity + like_bonus
    IN [destination |-> candidate.destination,
        place |-> candidate.place,
        activity |-> candidate.activity,
        preferred_weather |-> candidate.preferred_weather,
        estimated_flight_hours |-> candidate.estimated_flight_hours,
        max_temp |-> candidate.max_temp, min_temp |-> candidate.min_temp,
        rain |-> candidate.rain, poi_count |-> candidate.poi_count,
        sample_names |-> candidate.sample_names,
        score |-> total,
        score_breakdown |-> [activity_fit |-> activity_fit, weather_fit |-> weather_fit,
                             flight_feasibility |-> flight_fit,
                             diversity_novelty |-> diversity, like_bonus |-> like_bonus,
                             total |-> total]]

\* a ranking that leaves the scored candidates in the order they were built
keep_built_order(seq) == seq

\* list.sort(key=score, reverse=True): a stable sort, equal scores keep their order
RECURSIVE InsertByScore(_, _)
InsertByScore(sorted, c) ==
    IF sorted = <<>> THEN <<c>>
    ELSE IF Head(sorted).score >= c.score THEN <<Head(sorted)>> \o InsertByScore(Tail(sorted), c)
    ELSE <<c>> \o sorted
RECURSIVE SortByScoreDesc(_)
SortByScoreDesc(seq) ==
    IF seq = <<>> THEN <<>>
    ELSE InsertByScore(SortByScoreDesc(SubSeq(seq, 1, Len(seq) - 1)), seq[Len(seq)])

-----------------------------------------------------------------------------
(* src/agent/self_correction.py                                             *)

\* a variant that compares the name as it is written with the rejected set
validate_case_sensitive(candidates, max_flight_hours, rejected_destinations) ==
    SelectSeq(candidates, LAMBDA candidate :
        /\ candidate.destination \notin rejected_destinations
        /\ ~(/\ max_flight_hours # None
             /\ candidate.estimated_flight_hours # None
             /\ Val(candidate.estimated_flight_hours) > Val(max_flight_hours)))

\* validate_candidates
validate_candidates(candidates, max_flight_hours, rejected_destinations) ==
    SelectSeq(candidates, LAMBDA candidate :
        /\ str_lower(candidate.destination) \notin rejected_destinations
        /\ ~(/\ max_flight_hours # None
             /\ candidate.estimated_flight_hours # None
             /\ Val(candidate.estimated_flight_hours) > Val(max_flight_hours)))

-----------------------------------------------------------------------------
(* The external tools (src/tools), specified at their interface: what they  *)
(* return is drawn from a fixed table of places; a place's key stands for   *)
(* its coordinates.                                                         *)

Place(display, max_temp, min_temp, rain, poi_count, sample_names, hours) ==
    [display |-> display, max_temp |-> max_temp, min_temp |-> min_temp, rain |-> rain,
     poi_count |-> poi_count, sample_names |-> sample_names, hours |-> hours]

\* what the geocoder, the weather, the places and the flight tools know of the world
Gazetteer ==
    [innsbruck |-> Place(<<"Innsbruck, Tyrol, Austria">>, 3, -5, 14, 60, <<"Nordkette", "Patscherkofel">>, 41),
     aspen |-> Place(<<"Aspen, Pitkin County, Colorado, United States">>, 1, -11, 9, 45, <<"Aspen Mountain">>, 158),
     chamonix |-> Place(<<"Chamonix-Mont-Blanc, Haute-Savoie, France">>, 2, -6, 21, 80, <<"Brevent", "Flegere", "Brevent">>, 45),
     sapporo |-> Place(<<"Sapporo, Hokkaido, Japan">>, 0, -7, 30, 45, <<"Teine">>, 122),
     queenstown |-> Place(<<"Queenstown, Otago, New Zealand">>, 21, 10, 25, 20, <<>>, 212),
     lisbon |-> Place(<<"Lisbon, Portugal">>, 28, 18, 1, 120, <<"Belem Tower", "Alfama">>, 56),
     bangkok |-> Place(<<"Bangkok, Thailand">>, 33, 26, 60, 150, <<"Wat Pho", "Grand Palace", "Wat Arun">>, 94),
     tokyo |-> Place(<<"Tokyo, Japan">>, 30, 23, 45, 210, <<"Senso-ji", "Ueno Park">>, 121),
     capetown |-> Place(<<"Cape Town, Western Cape, South Africa">>, 18, 8, 30, 90, <<"Table Mountain">>, 101),
     vancouver |-> Place(<<"Vancouver, British Columbia, Canada">>, 22, 14, 12, 120, <<"Stanley Park", "Gastown">>, 142),
     buenosaires |-> Place(<<"Buenos Aires, Argentina">>, 15, 8, 20, 120, <<"La Boca", "Recoleta">>, 160),
     paris |-> Place(<<"Paris, Ile-de-France, France", "Paris, Lamar County, Texas, United States">>,
                     25, 16, 8, 200, <<"Louvre", "Eiffel Tower", "Orsay">>, 47),
     rome |-> Place(<<"Rome, Lazio, Italy">>, 31, 20, 2, 180, <<"Colosseum", "Pantheon">>, 35)]

\* the key of a query: lower-cased, blanks dropped (the geocoder is not case-sensitive)
DropBlanks(s) ==
    Join([i \in 1..Len(s) |-> IF Char(s, i) = " " THEN "" ELSE Char(s, i)], 1, Len(s))
PlaceKey(query) == DropBlanks(str_lower(query))

\* GeocodingTool.geocode when the request succeeds: at most `limit` rows
geocode(place, limit, geo) ==
    Bind(PlaceKey(place), LAMBDA key :
        IF geo # "ok" \/ key \notin DOMAIN Gazetteer THEN <<>>
        ELSE [i \in 1..Min(limit, Len(Gazetteer[key].display)) |->
                [name |-> Gazetteer[key].display[i], place |-> key]])

\* the cities the airport table of FlightTimeEstimator knows (lower-cased)
AirportCities == {"tel aviv"}

\* FlightTimeEstimator.estimate_hours
estimate_hours(origin_city, place) ==
    IF str_strip(str_lower(origin_city), WhiteSpace) \in AirportCities
    THEN Some(Gazetteer[place].hours) ELSE None

-----------------------------------------------------------------------------
(* src/agent/orchestrator.py                                                *)

SKI_SEEDS == <<"Innsbruck", "Aspen", "Chamonix", "Sapporo", "Queenstown">>
DEFAULT_SEEDS == <<"Lisbon", "Bangkok", "Tokyo", "Cape Town", "Vancouver", "Buenos Aires">>

\* a variant that carries the destination over whatever the length of the text
carry_over_any_length(parsed, mem) ==
    IF /\ parsed.destination = None
       /\ parsed.travel_date_or_month # None
       /\ Truthy(mem.last_destination)
    THEN [parsed EXCEPT !.destination = mem.last_destination]
    ELSE parsed

\* _apply_memory_context
_apply_memory_context(parsed, mem) ==
    IF /\ parsed.destination = None
       /\ TokenCount(str_lower(str_strip(parsed.raw_text, WhiteSpace))) <= 4
       /\ parsed.travel_date_or_month # None
       /\ Truthy(mem.last_destination)
    THEN [parsed EXCEPT !.destination = mem.last_destination]
    ELSE parsed

\* a variant in which a stored preference wins over the tag of the query
stored_preference_first(parsed, mem) ==
    Bind(IF Truthy(parsed.activity) THEN str_lower(Val(parsed.activity)) ELSE "",
         LAMBDA activity :
        IF Truthy(mem.preferred_weather) THEN mem.preferred_weather
        ELSE IF StartsAt(activity, "weather_preference:cold", 1) THEN Some("cold")
        ELSE IF StartsAt(activity, "weather_preference:warm", 1) THEN Some("warm")
        ELSE IF StartsAt(activity, "weather_preference:mild", 1) THEN Some("mild")
        ELSE None)

\* _effective_weather_preference
_effective_weather_preference(parsed, mem) ==
    Bind(IF Truthy(parsed.activity) THEN str_lower(Val(parsed.activity)) ELSE "",
         LAMBDA activity :
        IF StartsAt(activity, "weather_preference:cold", 1) THEN Some("cold")
        ELSE IF StartsAt(activity, "weather_preference:warm", 1) THEN Some("warm")
        ELSE IF StartsAt(activity, "weather_preference:mild", 1) THEN Some("mild")
        ELSE mem.preferred_weather)

\* _geocode_seed_locations
RECURSIVE _geocode_seed_locations(_, _)
_geocode_seed_locations(names, geo) ==
    IF names = <<>> THEN <<>>
    ELSE Bind(geocode(Head(names), 1, geo), LAMBDA rows :
            (IF rows # <<>> THEN <<rows[1]>> ELSE <<>>)
                \o _geocode_seed_locations(Tail(names), geo))

\* which seed list _build_candidates uses
SeedSource(parsed) ==
    IF Truthy(parsed.destination) THEN "destination"
    ELSE IF Truthy(parsed.activity) /\ str_lower(Val(parsed.activity)) = "skiing" THEN "ski"
    ELSE "default"

\* _build_candidates when no tool raises
_build_candidates(parsed, mem, geo) ==
    Bind(IF SeedSource(parsed) = "destination" THEN geocode(Val(parsed.destination), 2, geo)
         ELSE IF SeedSource(parsed) = "ski" THEN _geocode_seed_locations(SKI_SEEDS, geo)
         ELSE _geocode_seed_locations(DEFAULT_SEEDS, geo), LAMBDA seeds :
    Bind(_effective_weather_preference(parsed, mem), LAMBDA preferred_weather :
    Bind([i \in 1..Len(seeds) |->
            [destination |-> SplitFirst(seeds[i].name, ","),
             place |-> seeds[i].place,
             activity |-> parsed.activity,
             preferred_weather |-> preferred_weather,
             estimated_flight_hours |->
                 estimate_hours(IF Truthy(mem.origin_city) THEN Val(mem.origin_city) ELSE "",
                                seeds[i].place),
             max_temp |-> Gazetteer[seeds[i].place].max_temp,
             min_temp |-> Gazetteer[seeds[i].place].min_temp,
             rain |-> Gazetteer[seeds[i].place].rain,
             poi_count |-> Gazetteer[seeds[i].place].poi_count,
             sample_names |-> Gazetteer[seeds[i].place].sample_names]], LAMBDA candidates :
        IF SeedSource(parsed) = "destination" /\ candidates # <<>>
        THEN SubSeq(candidates, 1, 1)
        ELSE candidates)))

\* str(n) of a natural number
RECURSIVE IntString(_)
IntString(n) ==
    IF n < 10 THEN Char(DigitChars, n + 1)
    ELSE IntString(n \div 10) \o Char(DigitChars, (n % 10) + 1)
\* str(x) and f"{x:.1f}" of a number with one decimal, given in tenths
FormatTenths(t) ==
    (IF t < 0 THEN "-" ELSE "") \o IntString(Abs(t) \div 10) \o "." \o IntString(Abs(t) % 10)
\* round(score, 1) of a score given in hundredths, in tenths: the nearest tenth;
\* a score halfway between two tenths is a binary float next to that decimal,
\* and either neighbour may be the nearest
RoundToTenths(score) ==
    IF score % 10 < 5 THEN {score \div 10}
    ELSE IF score % 10 > 5 THEN {score \div 10 + 1}
    ELSE {score \div 10, score \div 10 + 1}

\* What llm_client.generate_json and json.loads make of the final_summary call:
\* kind as for the intent call; summary is the "summary" member of the object,
\* JAbsent when the object has none
JAbsent == <<"absent">>
SummaryRaises == [kind |-> "raises"]
SummaryReply(summary) == [kind |-> "object", summary |-> summary]
DefaultSummary == "Here are the best options based on your constraints."

\* the sentence of the except branch of _build_summary
TemplatedSummary(destination, tenths) ==
    "Best current match is " \o destination \o " with score " \o FormatTenths(tenths)
        \o ". I also included alternatives with clear tradeoffs."

\* _build_summary without its except branch: a failed call ends the run
_build_summary_uncaught(top, reply) ==
    IF reply.kind # "object" THEN {None}
    ELSE IF reply.summary = JAbsent THEN {Some(DefaultSummary)}
    ELSE IF reply.summary[1] = "str" THEN {Some(reply.summary[2])}
    ELSE {None}

\* _build_summary: the values it can return, Some(text), or None for a value
\* that is no string (data.get returns whatever the object holds)
_build_summary(top, reply) ==
    IF reply.kind # "object"
    THEN {Some(TemplatedSummary(top[1].destination, t)) : t \in RoundToTenths(top[1].score)}
    ELSE IF reply.summary = JAbsent THEN {Some(DefaultSummary)}
    ELSE IF reply.summary[1] = "str" THEN {Some(reply.summary[2])}
    ELSE {None}

\* str.replace(old, new) from index `from` on
RECURSIVE ReplaceFrom(_, _, _, _)
ReplaceFrom(s, old, new, from) ==
    Bind(FindFrom(s, old, from), LAMBDA at :
        IF at = 0 THEN SubSeq(s, from, Len(s))
        ELSE SubSeq(s, from, at - 1) \o new \o ReplaceFrom(s, old, new, at + Len(old)))
\* normalized.replace(old, new) followed by .replace(old.title(), new.title())
ReplaceBothCases(s, old, new) ==
    Bind(ReplaceFrom(s, old, new, 1), LAMBDA once :
        ReplaceFrom(once, str_title(old), str_title(new), 1))

\* _normalize_summary_for_count
_normalize_summary_for_count(summary, count) ==
    IF count # 1 THEN summary
    ELSE ReplaceBothCases(
            ReplaceBothCases(
              ReplaceBothCases(
                ReplaceBothCases(
                  ReplaceBothCases(summary, "each option", "this option"),
                  "these options", "this option"),
                "options are", "option is"),
              "options were", "option was"),
            "alternatives", "alternative options")

\* _weather_condition_label, on the rain in tenths and twice the average temperature
_weather_condition_label(max_temp, min_temp, rain) ==
    IF rain >= 40 THEN "rainy"
    ELSE IF rain >= 15 THEN "cloudy"
    ELSE IF max_temp + min_temp >= 24 THEN "sunny"
    ELSE "partly cloudy"

\* ", ".join(names)
CommaJoin(names) ==
    Join([i \in 1..Len(names) |-> IF i = 1 THEN names[i] ELSE ", " \o names[i]], 1, Len(names))

\* one line of _build_detailed_message; avg_temp is (max_temp + min_temp) / 2,
\* in tenths (max_temp + min_temp) * 5
DetailLine(index, rec) ==
    IntString(index) \o ". " \o rec.destination \o ": avg weather ~"
        \o FormatTenths((rec.max_temp + rec.min_temp) * 5) \o "C, usually "
        \o _weather_condition_label(rec.max_temp, rec.min_temp, rec.rain)
        \o ". Possible activities: "
        \o (IF rec.sample_names = <<>> THEN "city center walk, local museum, food market"
            ELSE CommaJoin(SubSeq(rec.sample_names, 1, Min(3, Len(rec.sample_names)))))
        \o "."

\* _build_detailed_message for a summary that is a string
_build_detailed_message(summary, recommendations) ==
    _normalize_summary_for_count(summary, Len(recommendations)) \o "\n" \o "\n"
        \o (IF Len(recommendations) = 1 THEN "Here are quick details for this option:"
            ELSE "Here are quick details for each option:")
        \o Join([i \in 1..Len(recommendations) |-> "\n" \o DetailLine(i, recommendations[i])],
                1, Len(recommendations))

\* lines 100-102 and 111-114
feedback_prompt(top) ==
    (IF Len(top) = 1 THEN "What do you think about this option?"
     ELSE "What do you think about these options?")
        \o " Reply with: 'like 1' or 'not good, new options'."

\* lines 98-115: the end of run once the summary call has returned `summary`.
\* A summary that is no string makes _build_detailed_message raise (str.replace
\* or "\n".join on it), before update_from_parsed.
FinishRun(base, parsed, top, summary) ==
    IF summary = None
    THEN [base EXCEPT !.raised = TRUE]
    ELSE [base EXCEPT !.status = "ok",
                      !.recommendations = top,
                      !.summary = _build_detailed_message(Val(summary), top),
                      !.feedback_prompt = feedback_prompt(top),
                      !.memory = update_from_parsed(base.memory_before, parsed)]

\* What one call of run does for one outcome `po` of the parser: the set of
\* its outcomes.  raised: an exception left run (the geocoder's request
\* failed, or the summary was no string); memory: the memory after the call.
RunWithParse(user_text, mem, env, po) ==
    Bind(_apply_memory_context(po.result, mem), LAMBDA parsed :
    Bind(_effective_weather_preference(parsed, mem), LAMBDA effective_weather_pref :
    Bind(missing_slots(parsed), LAMBDA missing :
    Bind([user_text |-> user_text, raised |-> FALSE, status |-> "",
          question |-> "", missing_slot |-> None,
          parse_result |-> po.result,
          parsed |-> parsed, rules |-> po.rules, merged |-> po.merged,
          refined |-> po.refined,
          effective_weather_pref |-> effective_weather_pref,
          missing |-> missing, seeds_from |-> "",
          built |-> <<>>, filtered |-> <<>>, scored |-> <<>>, recommendations |-> <<>>,
          summary |-> "", feedback_prompt |-> "",
          memory_before |-> mem, memory |-> mem], LAMBDA base :
        IF missing # <<>>
        THEN {[base EXCEPT !.status = "needs_clarification",
                           !.question = next_clarifying_question(missing),
                           !.missing_slot = Some(missing[1])]}
        ELSE IF should_ask_weather_preference(parsed, effective_weather_pref)
        THEN {[base EXCEPT !.status = "needs_weather_preference",
                           !.question = "Do you prefer cold, mild, warm weather, or no preference?"]}
        ELSE IF env.geo = "raises"
        THEN {[base EXCEPT !.raised = TRUE, !.seeds_from = SeedSource(parsed)]}
        ELSE
    Bind(_build_candidates(parsed, mem, env.geo), LAMBDA built :
    Bind(validate_candidates(built, parsed.max_flight_hours, mem.rejected_destinations),
         LAMBDA candidates :
        IF candidates = <<>>
        THEN {[base EXCEPT !.status = "no_results", !.seeds_from = SeedSource(parsed),
                           !.built = built]}
        ELSE
    Bind(season_from_date_or_month(IF Truthy(parsed.travel_date_or_month)
                                   THEN Val(parsed.travel_date_or_month) ELSE ""),
         LAMBDA season :
    Bind(SortByScoreDesc([i \in 1..Len(candidates) |->
                            score_candidate(candidates[i], parsed.activity,
                                            effective_weather_pref, parsed.max_flight_hours,
                                            season, mem.liked_profiles)]), LAMBDA scored :
    Bind(SubSeq(scored, 1, Min(3, Len(scored))), LAMBDA top :
        {FinishRun([base EXCEPT !.seeds_from = SeedSource(parsed),
                                !.built = built, !.filtered = candidates,
                                !.scored = scored],
                   parsed, top, summary) : summary \in _build_summary(top, env.summary)})))))))))

\* AgentOrchestrator.run: the outcomes of one call
AgentOrchestrator_run(user_text, mem, env) ==
    UNION {RunWithParse(user_text, mem, env, po) : po \in IntentParser_parse(user_text, env.llm)}

-----------------------------------------------------------------------------
(* app.py: the helpers of the chat loop.                                    *)

\* _normalize_text on ASCII text (where the NFKD folding changes nothing)
_normalize_text(value) == CollapseSpaces(str_strip(str_lower(value), WhiteSpace))

\* what the geocoder returns for an origin "city, country": rows with the
\* address fields _origin_confident_match reads
OriginRow(name, city, country, code) ==
    [name |-> name, address_city |-> city, address_country |-> country, country_code |-> code]
OriginGazetteer(query) ==
    Bind(_normalize_text(query), LAMBDA q :
        IF q = "tel aviv, israel"
        THEN <<OriginRow("Tel Aviv-Yafo, Tel Aviv District, Israel", "Tel Aviv-Yafo", "Israel", "il")>>
        ELSE IF q = "eilat, israel"
        THEN <<OriginRow("Eilat, South District, Israel", "Eilat", "Israel", "il")>>
        ELSE IF q = "springfield, israel"
        THEN <<OriginRow("Springfield, Sangamon County, Illinois, United States",
                         "Springfield", "United States", "us")>>
        ELSE IF q = ", israel"
        THEN <<OriginRow("Israel", "", "Israel", "il")>>
        ELSE IF q = "tel aviv,"
        THEN <<OriginRow("Tel Aviv-Yafo, Tel Aviv District, Israel", "Tel Aviv-Yafo", "Israel", "il")>>
        ELSE <<>>)

COUNTRY_CODE_MAP ==
    [k \in {"israel", "united states", "usa", "uk", "united kingdom"} |->
        IF k = "israel" THEN "il"
        ELSE IF k \in {"united states", "usa"} THEN "us" ELSE "gb"]

\* _origin_confident_match
_origin_confident_match(city, country, rows) ==
    Bind(_normalize_text(city), LAMBDA city_norm :
    Bind(_normalize_text(country), LAMBDA country_norm :
        \E i \in 1..Len(rows) :
            Bind(_normalize_text(rows[i].name), LAMBDA display_name :
            Bind(_normalize_text(rows[i].address_country), LAMBDA country_name :
                /\ \/ Contains(country_name, country_norm)
                   \/ Contains(country_norm, country_name)
                   \/ Contains(display_name, country_norm)
                   \/ /\ country_norm \in DOMAIN COUNTRY_CODE_MAP
                      /\ _normalize_text(rows[i].country_code) = COUNTRY_CODE_MAP[country_norm]
                /\ \/ /\ city_norm # ""
                      /\ Contains(_normalize_text(rows[i].address_city), city_norm)
                   \/ Contains(display_name, city_norm)))))

\* what handle_chat_onboarding does once the message has a comma: raised tells
\* that the geocoder's exception left the function
OnboardingWithParts(mem, city, country, geo, parts_checked) ==
    Bind(IF geo = "ok" THEN OriginGazetteer(city \o ", " \o country) ELSE <<>>, LAMBDA rows :
        IF parts_checked /\ (city = "" \/ country = "")
        THEN [consumed |-> TRUE, raised |-> FALSE, reply |-> "origin_parts", memory |-> mem]
        ELSE IF geo = "raises"
        THEN [consumed |-> TRUE, raised |-> TRUE, reply |-> "crash", memory |-> mem]
        ELSE IF rows = <<>>
        THEN [consumed |-> TRUE, raised |-> FALSE, reply |-> "origin_not_found", memory |-> mem]
        ELSE IF ~_origin_confident_match(city, country, rows)
        THEN [consumed |-> TRUE, raised |-> FALSE, reply |-> "origin_low_confidence",
              memory |-> mem]
        ELSE [consumed |-> TRUE, raised |-> FALSE, reply |-> "origin_saved",
              memory |-> set_origin(mem, city, country)])

\* a variant that does not require both parts to be non-empty
onboarding_without_parts_check(user_input, mem, geo) ==
    IF has_origin(mem)
    THEN [consumed |-> FALSE, raised |-> FALSE, reply |-> "", memory |-> mem]
    ELSE IF ~Contains(user_input, ",")
    THEN [consumed |-> TRUE, raised |-> FALSE, reply |-> "origin_format", memory |-> mem]
    ELSE OnboardingWithParts(mem, str_strip(SplitFirst(user_input, ","), WhiteSpace),
                             str_strip(SplitRest(user_input, ","), WhiteSpace), geo, FALSE)

\* handle_chat_onboarding: whether the message was consumed, the reply and the
\* memory after the call
handle_chat_onboarding(user_input, mem, geo) ==
    IF has_origin(mem)
    THEN [consumed |-> FALSE, raised |-> FALSE, reply |-> "", memory |-> mem]
    ELSE IF ~Contains(user_input, ",")
    THEN [consumed |-> TRUE, raised |-> FALSE, reply |-> "origin_format", memory |-> mem]
    ELSE OnboardingWithParts(mem, str_strip(SplitFirst(user_input, ","), WhiteSpace),
                             str_strip(SplitRest(user_input, ","), WhiteSpace), geo, TRUE)

\* the phrases of negative feedback apply_feedback looks for
FeedbackRejects(lowered) ==
    ContainsAny(lowered, {"didn't like", "did not like", "none", "new options", "not good"})
\* the phrases of positive feedback about the first recommendation
FeedbackLikesFirst(lowered) ==
    ContainsAny(lowered, {"like the first", "like 1", "like option 1"})

\* apply_feedback
apply_feedback(mem, feedback_text, recommendations) ==
    Bind(str_lower(feedback_text), LAMBDA lowered :
    Bind(IF FeedbackRejects(lowered)
         THEN add_rejections(mem, [i \in 1..Len(recommendations) |->
                                      recommendations[i].destination])
         ELSE mem, LAMBDA m1 :
        IF FeedbackLikesFirst(lowered) /\ recommendations # <<>>
        THEN add_like_profile(m1, [destination |-> recommendations[1].destination,
                                   activity |-> recommendations[1].activity,
                                   preferred_weather |-> m1.preferred_weather])
        ELSE m1))

\* capture_weather_preference: the preference it stores, None when it returns False
capture_weather_preference(user_text) ==
    Bind(str_lower(user_text), LAMBDA lowered :
        IF Contains(lowered, "cold") THEN Some("cold")
        ELSE IF Contains(lowered, "mild") THEN Some("mild")
        ELSE IF Contains(lowered, "warm") THEN Some("warm")
        ELSE IF Contains(lowered, "no") /\ Contains(lowered, "preference") THEN Some("no_preference")
        ELSE None)

\* is_feedback_text
is_feedback_text(user_text) ==
    ContainsAny(str_lower(user_text),
                {"like the first", "like 1", "like option 1", "didn't like", "did not like",
                 "none of", "new options", "not good"})

\* the condition of main under which the feedback branch regenerates
FeedbackAsksRegeneration(user_input) ==
    ContainsAny(str_lower(user_input),
                {"didn't like", "did not like", "none of", "new options", "not good"})

\* is_short_acknowledgement
is_short_acknowledgement(user_text) ==
    str_strip(str_lower(user_text), WhiteSpace) \in
        {"ok", "okay", "cool", "great", "nice", "good", "thanks", "thank you",
         "perfect", "sounds good"}

\* looks_like_new_travel_query
looks_like_new_travel_query(user_text) ==
    ContainsAny(str_lower(user_text),
                {"where", "go to", "trip", "travel", "ski", "beach", "hours", "flight"}
                    \cup MonthSet)

\* re.fullmatch(r"\d{1,2}[./-]\d{1,2}[./-]\d{2,4}", s)
FullMatchDate(s) ==
    \E n1 \in 1..2, n2 \in 1..2, n3 \in 2..4 :
        /\ Len(s) = n1 + n2 + n3 + 2
        /\ AllDigits(s, 1, n1) /\ Char(s, n1 + 1) \in DateSeparators
        /\ AllDigits(s, n1 + 2, n2) /\ Char(s, n1 + n2 + 2) \in DateSeparators
        /\ AllDigits(s, n1 + n2 + 3, n3)
\* re.fullmatch(r"\d+(?:\.\d+)?", s)
FullMatchNumber(s) ==
    LET e == RunEnd(s, 1, DigitSet)
    IN /\ e >= 1
       /\ \/ e = Len(s)
          \/ (e + 2 <= Len(s) /\ Char(s, e + 1) = "." /\ RunEnd(s, e + 2, DigitSet) = Len(s))

\* is_clarification_like_answer; slot is the pending slot or None
is_clarification_like_answer(user_text, slot) ==
    Bind(str_strip(str_lower(user_text), WhiteSpace), LAMBDA lowered :
        IF ~Truthy(slot) THEN FALSE
        ELSE IF Val(slot) = "travel_date_or_month" /\ (lowered \in MonthSet \/ FullMatchDate(lowered))
             THEN TRUE
        ELSE IF Val(slot) = "max_flight_hours"
             THEN FullMatchNumber(lowered) \/ Contains(lowered, "hour")
        ELSE IF Val(slot) = "destination" THEN Len(lowered) > 2 /\ TokenCount(lowered) <= 5
        ELSE IF Val(slot) = "activity" THEN Len(lowered) > 2
        ELSE FALSE)

-----------------------------------------------------------------------------
(* Bounds and the inputs the model draws.                                   *)

\* the most clarification answers one draft query may have appended to it
MaxClarifications == 1
\* the most liked profiles a session stores
MaxLiked == 1
\* the most destinations a session rejects
MaxRejected == 6

\* what the user types in a session
SessionTexts ==
    {"Tel Aviv, Israel",
     "I want to go skiing in December",
     "Where should I go in July?",
     "I didn't like any of these",
     "warm",
     "ok"}

\* replies of the text-completion service to the intent prompt
LlmNulls == LlmReply(JNull, JNull, JNull, JNull, JNull)
LlmSkiing == LlmReply(JStr("activity_based_discovery"), JNull, JStr("Skiing"), JNull, JNull)
SessionLlm == {LlmRaises, LlmNulls, LlmSkiing}

\* the geocoder: answers from the gazetteer, finds nothing, or its request fails
GeoBehaviours == {"ok", "none", "raises"}

\* llm: the reply to the intent call; geo: the geocoder; summary: the reply to
\* the final_summary call
EnvWith(llm, geo, summary) == [llm |-> llm, geo |-> geo, summary |-> summary]
\* a client that fails fails on both calls; a working one writes a summary
Env(llm, geo) ==
    EnvWith(llm, geo, IF llm.kind = "raises" THEN SummaryRaises
                      ELSE SummaryReply(JStr("These options are good alternatives.")))
SessionEnvs ==
    {Env(LlmRaises, "ok"), Env(LlmNulls, "ok"), Env(LlmNulls, "none"), Env(LlmNulls, "raises")}

\* the number of "|" in a text
CountBars(s) == Cardinality({i \in 1..Len(s) : Char(s, i) = "|"})

-----------------------------------------------------------------------------
(* app.py: main, one user message at a time.                                *)

NoRun == None
NoProbe == [fn |-> "none"]
Observed(handler, input, reply, run) ==
    [handler |-> handler, input |-> input, reply |-> reply, run |-> run,
     invoked_with |-> None]
\* what st.session_state holds of the two questions at the moment
\* orchestrator.run is called
InvokedWith(slot, weather_question) ==
    Some([pending_clarification_slot |-> slot, pending_weather_question |-> weather_question])

\* lines 399-405: a new travel query drops a stale clarification
StaleClarification(u) ==
    /\ Truthy(pending_clarification_slot)
    /\ looks_like_new_travel_query(u)
    /\ ~is_clarification_like_answer(u, pending_clarification_slot)
SlotAfterReset(u) == IF StaleClarification(u) THEN None ELSE pending_clarification_slot
DraftAfterReset(u) == IF StaleClarification(u) THEN None ELSE draft_query

\* lines 445-451: the answer to a clarification is resent as draft | slot: answer
AnswersClarification(u) == Truthy(SlotAfterReset(u))
\* a caller that passes the answer on as it was typed
resend_answer_alone(u) == u

CombinedInput(u) ==
    IF AnswersClarification(u)
    THEN (IF Truthy(DraftAfterReset(u)) THEN Val(DraftAfterReset(u)) ELSE "")
            \o " | " \o Val(SlotAfterReset(u)) \o ": " \o u
    ELSE u
DraftAfterCombine(u) == IF AnswersClarification(u) THEN None ELSE DraftAfterReset(u)

\* line 410: the message is feedback on the last recommendations
IsFeedbackTurn(u) == last_recommendations # <<>> /\ is_feedback_text(u)

\* lines 386-395
Acknowledge(u) ==
    /\ is_short_acknowledgement(u)
    /\ pending_clarification_slot' = None
    /\ draft_query' = None
    /\ turn' = Observed("acknowledgement", u, "ready", NoRun)
    /\ UNCHANGED <<memory, pending_weather_question, last_query, last_recommendations, probe>>

\* lines 407-408 with handle_chat_onboarding (lines 67-151); an exception of the
\* geocoder is not caught and ends the script run ("crash")
Onboard(u, geo) ==
    /\ ~is_short_acknowledgement(u)
    /\ handle_chat_onboarding(u, memory, geo).consumed
    /\ memory' = handle_chat_onboarding(u, memory, geo).memory
    /\ turn' = Observed("onboarding", u, handle_chat_onboarding(u, memory, geo).reply, NoRun)
    /\ pending_clarification_slot' = SlotAfterReset(u)
    /\ draft_query' = DraftAfterReset(u)
    /\ UNCHANGED <<pending_weather_question, last_query, last_recommendations, probe>>

\* lines 410-443: feedback, and for negative feedback a regeneration run on the
\* last query; that call of run is outside any try
Feedback(u, env) ==
    /\ ~is_short_acknowledgement(u)
    /\ has_origin(memory)
    /\ IsFeedbackTurn(u)
    /\ LET mem1 == apply_feedback(memory, u, last_recommendations)
       IN /\ Len(mem1.liked_profiles) <= MaxLiked
          /\ Cardinality(mem1.rejected_destinations) <= MaxRejected
          /\ IF FeedbackAsksRegeneration(u) /\ Truthy(last_query)
             THEN \E retry \in AgentOrchestrator_run(Val(last_query), mem1, env) :
                    /\ memory' = retry.memory
                    /\ last_recommendations' =
                          IF ~retry.raised /\ retry.status = "ok"
                          THEN retry.recommendations ELSE last_recommendations
                    /\ turn' = [Observed("feedback", u,
                                         IF retry.raised THEN "crash"
                                         ELSE IF retry.status = "ok" THEN "regenerated"
                                         ELSE "need_detail",
                                         Some(retry))
                                  EXCEPT !.invoked_with =
                                      InvokedWith(SlotAfterReset(u), pending_weather_question)]
             ELSE /\ memory' = mem1
                  /\ last_recommendations' = last_recommendations
                  /\ turn' = Observed("feedback", u, "thanks", NoRun)
    /\ pending_clarification_slot' = SlotAfterReset(u)
    /\ draft_query' = DraftAfterReset(u)
    /\ UNCHANGED <<pending_weather_question, last_query, probe>>

\* a message that reaches lines 445-525
ReachesQuery(u) ==
    /\ ~is_short_acknowledgement(u)
    /\ has_origin(memory)
    /\ ~IsFeedbackTurn(u)
    /\ (AnswersClarification(u) =>
            CountBars(IF Truthy(DraftAfterReset(u)) THEN Val(DraftAfterReset(u)) ELSE "")
                < MaxClarifications)

\* lines 452, 463-470: the weather question is pending and the answer names no
\* preference
WeatherAnswerRejected(u) ==
    /\ ReachesQuery(u)
    /\ pending_weather_question
    /\ capture_weather_preference(CombinedInput(u)) = None
    /\ pending_clarification_slot' = None
    /\ draft_query' = DraftAfterCombine(u)
    /\ turn' = Observed("weather_answer", u, "ask_weather_again", NoRun)
    /\ UNCHANGED <<memory, pending_weather_question, last_query, last_recommendations, probe>>

\* lines 452-462: the answer is stored and there is no draft query to run
WeatherAnswerStored(u) ==
    /\ ReachesQuery(u)
    /\ pending_weather_question
    /\ capture_weather_preference(CombinedInput(u)) # None
    /\ ~Truthy(DraftAfterCombine(u))
    /\ memory' = [memory EXCEPT !.preferred_weather = capture_weather_preference(CombinedInput(u))]
    /\ pending_weather_question' = FALSE
    /\ pending_clarification_slot' = None
    /\ draft_query' = DraftAfterCombine(u)
    /\ turn' = Observed("weather_answer", u, "weather_saved", NoRun)
    /\ UNCHANGED <<last_query, last_recommendations, probe>>

\* lines 445-525: the (combined, or drafted) query is run and its outcome handled
RunTurn(u, env) ==
    /\ ReachesQuery(u)
    /\ pending_weather_question =>
          (capture_weather_preference(CombinedInput(u)) # None /\ Truthy(DraftAfterCombine(u)))
    /\ LET answered == pending_weather_question
           mem1 == IF answered
                   THEN [memory EXCEPT !.preferred_weather =
                                            capture_weather_preference(CombinedInput(u))]
                   ELSE memory
           user_input == IF answered THEN Val(DraftAfterCombine(u)) ELSE CombinedInput(u)
           draft1 == IF answered THEN None ELSE DraftAfterCombine(u)
       IN \E result \in AgentOrchestrator_run(user_input, mem1, env) :
            /\ memory' = result.memory
            /\ pending_weather_question' =
                 IF result.raised THEN FALSE
                 ELSE IF result.status = "needs_weather_preference" THEN TRUE
                 ELSE IF answered THEN FALSE ELSE pending_weather_question
            /\ pending_clarification_slot' =
                 IF ~result.raised /\ result.status = "needs_clarification"
                 THEN result.missing_slot ELSE None
            /\ draft_query' =
                 IF ~result.raised /\ result.status \in {"needs_weather_preference", "needs_clarification"}
                 THEN Some(user_input) ELSE draft1
            /\ last_recommendations' =
                 IF ~result.raised /\ result.status = "ok"
                 THEN result.recommendations ELSE last_recommendations
            /\ last_query' =
                 IF ~result.raised /\ result.status = "ok" THEN Some(user_input) ELSE last_query
            /\ turn' = [Observed("turn", u,
                                 IF result.raised THEN "temporary_issue"
                                 ELSE IF result.status = "ok" THEN "summary"
                                 ELSE IF result.status = "no_results" THEN "no_results"
                                 ELSE "question",
                                 Some(result))
                          EXCEPT !.invoked_with =
                              InvokedWith(IF AnswersClarification(u) THEN None
                                          ELSE SlotAfterReset(u),
                                          IF answered THEN FALSE
                                          ELSE pending_weather_question)]
    /\ UNCHANGED probe

\* lines 532-538: the "Save feedback" button under the recommendations
QuickFeedback(feedback) ==
    /\ last_recommendations # <<>>
    /\ str_strip(feedback, WhiteSpace) # ""
    /\ LET mem1 == apply_feedback(memory, feedback, last_recommendations)
       IN /\ Len(mem1.liked_profiles) <= MaxLiked
          /\ Cardinality(mem1.rejected_destinations) <= MaxRejected
          /\ memory' = mem1
    /\ turn' = Observed("quick_feedback", feedback, "saved", NoRun)
    /\ UNCHANGED <<pending_weather_question, pending_clarification_slot, draft_query,
                   last_query, last_recommendations, probe>>

\* init_state
Init ==
    /\ memory = NewSessionMemory
    /\ pending_weather_question = FALSE
    /\ pending_clarification_slot = None
    /\ draft_query = None
    /\ last_query = None
    /\ last_recommendations = <<>>
    /\ turn = Observed("start", "", "", NoRun)
    /\ probe = NoProbe

Next ==
    \/ \E u \in SessionTexts : Acknowledge(u)
    \/ \E u \in SessionTexts, geo \in GeoBehaviours : Onboard(u, geo)
    \/ \E u \in SessionTexts, env \in SessionEnvs : Feedback(u, env)
    \/ \E u \in SessionTexts : WeatherAnswerRejected(u)
    \/ \E u \in SessionTexts : WeatherAnswerStored(u)
    \/ \E u \in SessionTexts, env \in SessionEnvs : RunTurn(u, env)
    \/ \E u \in SessionTexts : QuickFeedback(u)

Spec == Init /\ [][Next]_vars
-----------------------------------------------------------------------------
(* The functions on their own: each step applies one function to one input  *)
(* drawn from a bounded set and records the input and what came back.       *)

\* texts given to the parser and to run
ParseTexts ==
    {"I want to go skiing in December",
     "Where should I go in July?",
     "Where should I go? July, no flight limit",
     "Paris",
     "trip to Rome 15.07.2026",
     "destination: Paris | activity: Hiking",
     "i want to go skiing in rome | destination: paris | activity: hiking",
     "Paris, max flight 4.5 hours, no limit | max_flight_hours: 3",
     "I want a cold place in January, max flight 4.5 hours",
     "warm"}

\* behaviours of the text-completion service on the intent prompt
ParseLlm ==
    {LlmRaises, [kind |-> "not_json"], [kind |-> "not_object"],
     LlmNulls, LlmSkiing,
     LlmReply(JStr("book_flight"), JStr(""), JStr(""), JStr(""), JNull),
     LlmReply(JNum(7), JStr("Oslo"), JStr("hiking"), JStr("march"), JNum(Tenths(3))),
     LlmReply(JStr(" Activity_Based_Discovery "), JNull, JStr("hiking"), JNull, JStr("2.5")),
     LlmReply(JStr("destination_opinion or constraint_based_discovery"), JStr("Oslo"),
              JNull, JStr("march"), JNull),
     LlmReply(JStr("constraint_based_discovery"), JStr("Oslo"), JNull, JNull, JNum(NoLimit)),
     LlmReply(JStr("destination_opinion"), JNull, JNull, JNull, JStr("abc")),
     LlmReply(JNull, JNum(5), JNull, JNull, JNull),
     LlmReply(JNull, JStr("anywhere"), JNull, JNull, JNum(0)),
     LlmReply(JStr("nothing"), JNum(0), JStr("Hiking"), JStr(""), JNull),
     LlmReply(JStr("constraint_based_discovery"), JStr("anywhere"), JNull, JNull, JNull)}

\* the parsed intents given to missing_slots
SlotTexts == {None, Some(""), Some("x")}
SlotProbes ==
    {ParsedIntent(i, d, a, t, h, "") :
        i \in ALLOWED_INTENTS \cup {"book_flight"}, d \in SlotTexts, a \in SlotTexts,
        t \in SlotTexts, h \in {None, Some(NoLimit), Some(Tenths(4))}}

\* session memories given to run
MemTelAviv == set_origin(NewSessionMemory, "Tel Aviv", "Israel")
MemWarm == [MemTelAviv EXCEPT !.preferred_weather = Some("warm")]
MemRejected ==
    [MemWarm EXCEPT !.rejected_destinations = {"lisbon", "bangkok", "innsbruck", "paris"}]
MemAfterRome ==
    [MemWarm EXCEPT !.last_destination = Some("Rome"),
                    !.last_travel_date_or_month = Some("15.07.2026")]
MemEilat == [set_origin(NewSessionMemory, "Eilat", "Israel") EXCEPT
                !.preferred_weather = Some("no_preference")]
\* a session in which the first of the default cities was liked
MemLiked ==
    add_like_profile(MemWarm, [destination |-> "Lisbon", activity |-> None,
                               preferred_weather |-> Some("warm")])
RunMemories == {MemTelAviv, MemWarm, MemRejected, MemAfterRome, MemEilat, MemLiked}

RunTexts ==
    {"I want to go skiing in December",
     "Where should I go in July?",
     "Where should I go? July, no flight limit",
     "Paris",
     "Paris | travel_date_or_month: may",
     "may",
     "I want a cold place in January, max flight 4.5 hours",
     "Where should I go in January? cold place",
     "I didn't like any of these",
     "warm"}
\* replies to the final_summary call: the request fails, the text holds no
\* JSON, the JSON is no object, the object has no "summary", or its "summary"
\* is a string, null or a number
SummaryReplies ==
    {SummaryRaises, [kind |-> "not_json"], [kind |-> "not_object"],
     SummaryReply(JAbsent), SummaryReply(JStr("These options are good alternatives.")),
     SummaryReply(JNull), SummaryReply(JNum(7))}
RunEnvs ==
    SessionEnvs \cup {Env(LlmSkiing, "ok")}
        \cup {EnvWith(LlmNulls, "ok", summary) : summary \in SummaryReplies}

\* candidate lists, limits and rejected sets given to validate_candidates
DiscoveryIntent ==
    ParsedIntent("constraint_based_discovery", None, None, Some("july"), None, "")
ValidateLists ==
    {_build_candidates(DiscoveryIntent, MemWarm, "ok"),
     _build_candidates(DiscoveryIntent, MemEilat, "ok"),
     _build_candidates([DiscoveryIntent EXCEPT !.destination = Some("Paris")], MemWarm, "ok")}
ValidateLimits == {None, Some(NoLimit), Some(Tenths(5)), Some(Tenths(10)), Some(Tenths(25))}
ValidateRejected == {{}, {"lisbon"}, {"paris", "tokyo", "oslo"}}

\* messages, memories and geocoder behaviours given to handle_chat_onboarding
OnboardTexts ==
    {"Tel Aviv, Israel", "  tel aviv ,  israel ", "Eilat, Israel", "Springfield, Israel",
     "Atlantis, Nowhere", "Tel Aviv", ", Israel", "Tel Aviv, ", " , ", "Tel Aviv, Israel, Asia"}
OnboardMemories == {NewSessionMemory, MemTelAviv}

ProbeOnboarding(user_input, mem, geo) ==
    /\ probe = NoProbe
    /\ probe' = [fn |-> "handle_chat_onboarding", user_input |-> user_input, memory |-> mem,
                 geo |-> geo, outcome |-> handle_chat_onboarding(user_input, mem, geo)]
    /\ UNCHANGED sessionVars

ProbeParse(user_text, llm) ==
    /\ probe = NoProbe
    /\ probe' = [fn |-> "parse", user_text |-> user_text, llm |-> llm,
                 outcomes |-> IntentParser_parse(user_text, llm)]
    /\ UNCHANGED sessionVars

ProbeMissingSlots(parsed_intent) ==
    /\ probe = NoProbe
    /\ probe' = [fn |-> "missing_slots", parsed_intent |-> parsed_intent,
                 missing |-> missing_slots(parsed_intent)]
    /\ UNCHANGED sessionVars

ProbeRun(user_text, mem, env) ==
    /\ probe = NoProbe
    /\ probe' = [fn |-> "run", user_text |-> user_text, memory |-> mem, env |-> env,
                 outcomes |-> AgentOrchestrator_run(user_text, mem, env)]
    /\ UNCHANGED sessionVars

ProbeValidate(candidates, max_flight_hours, rejected_destinations) ==
    /\ probe = NoProbe
    /\ probe' = [fn |-> "validate_candidates", candidates |-> candidates,
                 max_flight_hours |-> max_flight_hours,
                 rejected_destinations |-> rejected_destinations,
                 filtered |-> validate_candidates(candidates, max_flight_hours,
                                                  rejected_destinations)]
    /\ UNCHANGED sessionVars

\* candidates and arguments given to score_candidate: the first default
\* candidate with one of poi_count, rain, temperatures and flight estimate
\* changed; the values lie on both sides of where the scorer's min and max bite
ScoreBase == _build_candidates(DiscoveryIntent, MemWarm, "ok")[1]
PoiCounts == {0, 1, 74, 75, 76, 99, 100, 101, 139, 140, 141, 199, 200, 201, 260}
RainAmounts == {0, 10, 40, 83, 84, 100}
Temperatures == {<<3, 0 - 5>>, <<12, 4>>, <<20, 16>>, <<30, 24>>, <<41, 33>>}
FlightEstimates ==
    {None, Some(0), Some(Tenths(1)), Some(45), Some(Tenths(10)), Some(124), Some(125),
     Some(126), Some(Tenths(20))}
ScoreCandidates ==
    {[ScoreBase EXCEPT !.poi_count = n] : n \in PoiCounts}
        \cup {[ScoreBase EXCEPT !.rain = r] : r \in RainAmounts}
        \cup {[ScoreBase EXCEPT !.max_temp = t[1], !.min_temp = t[2]] : t \in Temperatures}
        \cup {[ScoreBase EXCEPT !.estimated_flight_hours = e] : e \in FlightEstimates}
ScoreActivities == {None, Some("Skiing"), Some("hiking")}
ScoreWeathers == {None, Some("cold"), Some("mild"), Some("warm"), Some("no_preference")}
ScoreLimits == {None, Some(NoLimit), Some(0), Some(45), Some(Tenths(10))}
ScoreSeasons == {"winter", "summer"}

ProbeScore(candidate, activity, preferred_weather, max_flight_hours, season) ==
    /\ probe = NoProbe
    /\ probe' = [fn |-> "score_candidate", candidate |-> candidate, activity |-> activity,
                 preferred_weather |-> preferred_weather,
                 max_flight_hours |-> max_flight_hours, season |-> season,
                 scored |-> score_candidate(candidate, activity, preferred_weather,
                                            max_flight_hours, season, <<>>)]
    /\ UNCHANGED sessionVars

\* values given to season_from_date_or_month: month names, other words, date
\* strings, and what the parser extracts from texts that hold a date
SeasonStrings ==
    {"december", "January", "march", "MAY", "july", "october", "soon", "", "2026",
     "15.07.2026", "1-12-26", "15.13.2026", "15.0.2026", "15.x.2026"}
DateTexts ==
    {"trip to Rome 15.07.2026", "trip to Rome 15/07/2026", "trip to Rome 3-3-27",
     "trip to Rome 1.12/26"}
SeasonInputs ==
    SeasonStrings \cup {Val(_extract_date_or_month(t)) : t \in DateTexts}

ProbeSeason(travel_date_or_month) ==
    /\ probe = NoProbe
    /\ probe' = [fn |-> "season_from_date_or_month",
                 travel_date_or_month |-> travel_date_or_month,
                 season |-> season_from_date_or_month(travel_date_or_month)]
    /\ UNCHANGED sessionVars

\* feedback texts and the ok outcomes they are about: apply_feedback gets the
\* memory the run left and the recommendations it returned
FeedbackTexts ==
    {"like 1", "I like the first one", "I didn't like 1", "not good, new options", "nice"}
FeedbackRuns ==
    {r \in UNION {AgentOrchestrator_run(user_text, mem, Env(LlmNulls, "ok")) :
                    user_text \in {"Where should I go in July?",
                                   "Where should I go in January? cold place"},
                    mem \in {MemWarm, MemEilat}} :
        ~r.raised /\ r.status = "ok"}

ProbeFeedback(feedback_text, r) ==
    /\ probe = NoProbe
    /\ probe' = [fn |-> "apply_feedback", feedback_text |-> feedback_text,
                 memory |-> r.memory, recommendations |-> r.recommendations,
                 memory_after |-> apply_feedback(r.memory, feedback_text, r.recommendations)]
    /\ UNCHANGED sessionVars

\* lists of candidates given to the ranking of run: four of the default
\* cities with the data of the first, each with 99 or 100 points of interest,
\* so that some lists hold candidates of equal score
RankNames == <<"Lisbon", "Bangkok", "Tokyo", "Cape Town">>
RankLists ==
    {[i \in 1..Len(RankNames) |->
        [ScoreBase EXCEPT !.destination = RankNames[i], !.poi_count = poi[i]]] :
     poi \in [1..Len(RankNames) -> {99, 100}]}

\* orchestrator.py lines 77-89: score each candidate, sort, keep the first three
ProbeRank(candidates) ==
    /\ probe = NoProbe
    /\ probe' = Bind(SortByScoreDesc([i \in 1..Len(candidates) |->
                        score_candidate(candidates[i], None, Some("warm"), None,
                                        "summer", <<>>)]), LAMBDA scored :
                    [fn |-> "rank", built |-> candidates, scored |-> scored,
                     recommendations |-> SubSeq(scored, 1, Min(3, Len(scored)))])
    /\ UNCHANGED sessionVars

NextFn ==
    \/ \E user_input \in OnboardTexts, mem \in OnboardMemories, geo \in GeoBehaviours :
          ProbeOnboarding(user_input, mem, geo)
    \/ \E user_text \in ParseTexts, llm \in ParseLlm : ProbeParse(user_text, llm)
    \/ \E parsed_intent \in SlotProbes : ProbeMissingSlots(parsed_intent)
    \/ \E user_text \in RunTexts, mem \in RunMemories, env \in RunEnvs :
          ProbeRun(user_text, mem, env)
    \/ \E candidates \in ValidateLists, limit \in ValidateLimits,
          rejected \in ValidateRejected : ProbeValidate(candidates, limit, rejected)
    \/ \E candidate \in ScoreCandidates, activity \in ScoreActivities,
          preferred_weather \in ScoreWeathers, limit \in ScoreLimits,
          season \in ScoreSeasons :
          ProbeScore(candidate, activity, preferred_weather, limit, season)
    \/ \E travel_date_or_month \in SeasonInputs : ProbeSeason(travel_date_or_month)
    \/ \E feedback_text \in FeedbackTexts, r \in FeedbackRuns : ProbeFeedback(feedback_text, r)
    \/ \E candidates \in RankLists : ProbeRank(candidates)

SpecFn == Init /\ [][NextFn]_vars
-----------------------------------------------------------------------------
(* What the claims speak of.                                                *)

\* the calls of run the current state records, each with its outcome
ObservedRuns ==
    (IF turn.run # NoRun THEN {Val(turn.run)} ELSE {})
        \cup (IF probe.fn = "run" THEN probe.outcomes ELSE {})
\* those that returned
ReturnedRuns == {r \in ObservedRuns : ~r.raised}

RunStatuses == {"needs_clarification", "needs_weather_preference", "no_results", "ok"}

\* the required-slot table as the specification states it
StatedRequiredSlots(intent) ==
    IF intent = "destination_opinion" THEN <<"destination", "travel_date_or_month">>
    ELSE IF intent = "activity_based_discovery" THEN <<"activity", "travel_date_or_month">>
    ELSE IF intent = "constraint_based_discovery" THEN <<"travel_date_or_month">>
    ELSE <<>>
\* a slot that is neither null nor the empty string
SlotFilled(parsed, slot) == parsed[slot] # None /\ parsed[slot] # Some("")
\* the required slots that are not filled, in table order
StatedMissing(parsed) ==
    SelectSeq(StatedRequiredSlots(parsed.intent), LAMBDA slot : ~SlotFilled(parsed, slot))
\* the question asked for each slot
StatedQuestion(slot) ==
    IF slot = "travel_date_or_month" THEN "What date or month are you planning to travel?"
    ELSE IF slot = "destination" THEN "Which destination are you considering?"
    ELSE IF slot = "activity" THEN "Which activity are you most interested in?"
    ELSE "What is your maximum flight duration in hours?"

\* the weather tag a parsed activity carries, None when it carries none
WeatherTag(parsed) ==
    IF parsed.activity \in {Some("weather_preference:cold"), Some("weather_preference:mild"),
                            Some("weather_preference:warm")}
    THEN Some(SubSeq(Val(parsed.activity), Len("weather_preference:") + 1,
                     Len(Val(parsed.activity))))
    ELSE None
\* the effective weather preference of a call: the tag, else the stored preference
StatedEffectiveWeather(r) ==
    IF WeatherTag(r.parsed) # None THEN WeatherTag(r.parsed)
    ELSE r.memory_before.preferred_weather
IsSkiing(parsed) == parsed.activity # None /\ str_lower(Val(parsed.activity)) = "skiing"

\* C1: every call of run that returns has exactly one of the four statuses; the
\* status is needs_clarification if and only if a required slot of the parsed
\* intent (after memory carry-over) is missing, and then missing_slot is the first
\* missing slot in table order and question is the fixed question of that slot.
C1_RunStatus ==
    \A r \in ReturnedRuns :
        /\ r.status \in RunStatuses
        /\ (r.status = "needs_clarification") <=> (StatedMissing(r.parsed) # <<>>)
        /\ r.status = "needs_clarification" =>
              /\ r.missing_slot = Some(StatedMissing(r.parsed)[1])
              /\ r.question = StatedQuestion(StatedMissing(r.parsed)[1])

\* C1 witness: run asked for the first of two missing slots
C1_Witness ==
    \E r \in ReturnedRuns :
        /\ r.status = "needs_clarification"
        /\ Len(StatedMissing(r.parsed)) = 2
        /\ r.missing_slot = Some("destination")

\* C2: run returns needs_weather_preference exactly when no required slot is
\* missing, the effective weather preference of the turn is unset and the
\* activity is not skiing; "Where should I go in July?" with no stored preference
\* and no activity yields it; a missing slot is asked before the weather question.
C2_WeatherGate ==
    \A r \in ReturnedRuns :
        /\ (r.status = "needs_weather_preference") <=>
              /\ StatedMissing(r.parsed) = <<>>
              /\ ~Truthy(StatedEffectiveWeather(r))
              /\ ~IsSkiing(r.parsed)
        /\ (/\ r.user_text = "Where should I go in July?"
            /\ r.memory_before.preferred_weather = None
            /\ r.parsed.activity = None)
              => /\ r.status = "needs_weather_preference"
                 /\ r.parsed.intent = "constraint_based_discovery"
                 /\ r.parsed.travel_date_or_month = Some("july")
        /\ (StatedMissing(r.parsed) # <<>> /\ ~Truthy(StatedEffectiveWeather(r)))
              => r.status = "needs_clarification"

\* C2 witness: the weather question on "Where should I go in July?"
C2_Witness ==
    \E r \in ReturnedRuns :
        /\ r.user_text = "Where should I go in July?"
        /\ r.memory_before.preferred_weather = None
        /\ r.status = "needs_weather_preference"

\* C3: missing_slots(parsed) is empty if and only if every slot the table
\* requires for parsed.intent is neither null nor the empty string; it returns
\* the unfilled required slots in table order, and never max_flight_hours when
\* that equals the no-limit sentinel.
C3_MissingSlots ==
    probe.fn = "missing_slots" =>
        /\ (probe.missing = <<>>) <=>
              \A i \in 1..Len(StatedRequiredSlots(probe.parsed_intent.intent)) :
                  SlotFilled(probe.parsed_intent,
                             StatedRequiredSlots(probe.parsed_intent.intent)[i])
        /\ probe.missing = StatedMissing(probe.parsed_intent)
        /\ probe.parsed_intent.max_flight_hours = Some(NoLimit) =>
              \A i \in 1..Len(probe.missing) : probe.missing[i] # "max_flight_hours"

\* C3 witness: an intent whose destination is the empty string and whose date is null
C3_Witness ==
    /\ probe.fn = "missing_slots"
    /\ probe.parsed_intent.intent = "destination_opinion"
    /\ probe.parsed_intent.destination = Some("")
    /\ probe.parsed_intent.travel_date_or_month = None
    /\ probe.parsed_intent.max_flight_hours = Some(NoLimit)
    /\ probe.missing = <<"destination", "travel_date_or_month">>
\* the three values of the intent enum
StatedIntents ==
    {"destination_opinion", "activity_based_discovery", "constraint_based_discovery"}

\* C4: for every user text and every behaviour of the text-completion service
\* (it raises, returns no JSON, returns JSON with any intent value), the
\* ParsedIntent that parse returns has one of the three enum values as intent.
C4_IntentInEnum ==
    probe.fn = "parse" =>
        /\ probe.outcomes # {}
        /\ \A o \in probe.outcomes : o.result.intent \in StatedIntents

\* C4 witness: the service answered with an intent outside the enum, a string or a number
C4_Witness ==
    /\ probe.fn = "parse"
    /\ probe.llm.kind = "object"
    /\ probe.llm.intent \in {JStr("book_flight"), JNum(7)}
    /\ \E o \in probe.outcomes : o.refined /\ o.result.intent \in StatedIntents

\* the refinement fails: the call raises, the reply is no JSON object, or a field
\* of the reply makes the merge or the normalization raise
RefinementFails(llm) ==
    \/ llm.kind \in {"raises", "not_json", "not_object"}
    \/ /\ llm.kind = "object"
       /\ \/ llm.max_flight_hours[1] = "str" /\ ParseFloat(llm.max_flight_hours[2]) = None
          \/ llm.destination[1] = "num" /\ llm.destination[2] # 0

\* C5: parse never raises: whenever the text-completion call raises, its reply is
\* not parsable JSON, or merging or normalizing the reply raises, parse returns
\* the normalized result of _parse_with_rules, with no field of the reply in it.
C5_FallbackToRules ==
    probe.fn = "parse" =>
        /\ probe.outcomes # {}
        /\ \A o \in probe.outcomes : o.result.raw_text = probe.user_text
        /\ RefinementFails(probe.llm) =>
              \A o \in probe.outcomes :
                  /\ ~o.refined
                  /\ o.result = _normalize_intent(_parse_with_rules(probe.user_text))

\* C5 witness: the reply's max_flight_hours is no number, and the fallback result
\* carries the weather tag that normalization adds to the rule-based result
C5_Witness ==
    /\ probe.fn = "parse"
    /\ probe.llm.kind = "object"
    /\ probe.llm.max_flight_hours = JStr("abc")
    /\ \E o \in probe.outcomes :
          /\ o.result.activity = Some("weather_preference:cold")
          /\ o.rules.activity = None
          /\ o.result.max_flight_hours = Some(Tenths(4) + 5)

\* the fields of a reply the merge reads with `or`
OrFields == {"destination", "activity", "travel_date_or_month"}
\* a JSON value that Python takes for true
JTruthy(v) == v # JNull /\ v # JStr("") /\ v # JNum(0)
\* the allowed values an intent string equals or contains, letter case and
\* surrounding blanks aside
IntentsNamedBy(v) ==
    IF v[1] # "str" THEN {}
    ELSE IF str_strip(str_lower(v[2]), WhiteSpace) \in StatedIntents
         THEN {str_strip(str_lower(v[2]), WhiteSpace)}
    ELSE {i \in StatedIntents : Contains(str_lower(v[2]), i)}
\* the intent of the merged record follows the reply's intent when that names an
\* allowed value, and is the rule-based intent otherwise
MergedIntentField(o, llm) ==
    IF IntentsNamedBy(llm.intent) # {} THEN Val(o.merged).intent \in IntentsNamedBy(llm.intent)
    ELSE Val(o.merged).intent = o.rules.intent
MergedHoursField(o, llm) ==
    IF llm.max_flight_hours # JNull
    THEN Val(o.merged).max_flight_hours = LlmHours(llm.max_flight_hours)
    ELSE Val(o.merged).max_flight_hours = o.rules.max_flight_hours

\* C6, as stated: when the refinement succeeds, each of destination, activity,
\* travel_date_or_month and max_flight_hours of the merged intent is the reply's
\* value whenever that is non-null and the rule-based value only when it is null;
\* the reply's intent is used only if it equals or contains an allowed value.
C6_AsStated ==
    probe.fn = "parse" =>
        \A o \in probe.outcomes : o.refined =>
            /\ \A f \in OrFields :
                  IF probe.llm[f] # JNull THEN Val(o.merged)[f] = Some(probe.llm[f][2])
                  ELSE Val(o.merged)[f] = o.rules[f]
            /\ MergedHoursField(o, probe.llm)
            /\ MergedIntentField(o, probe.llm)

\* C6: when the refinement succeeds, each of destination, activity and
\* travel_date_or_month of the merged intent is the reply's value whenever that is
\* neither null nor the empty string nor zero, and the rule-based value otherwise;
\* max_flight_hours is the reply's value as a number whenever that is non-null,
\* zero included, and the rule-based value otherwise; the reply's intent, trimmed
\* and lower-cased, is used only if it equals or contains an allowed value.
C6_TruthyOverride ==
    probe.fn = "parse" =>
        \A o \in probe.outcomes : o.refined =>
            /\ \A f \in OrFields :
                  IF JTruthy(probe.llm[f]) THEN Val(o.merged)[f] = Some(probe.llm[f][2])
                  ELSE Val(o.merged)[f] = o.rules[f]
            /\ MergedHoursField(o, probe.llm)
            /\ MergedIntentField(o, probe.llm)

\* C6 witness: the reply's destination is the empty string and the rule-based
\* destination is kept
C6_Witness ==
    /\ probe.fn = "parse"
    /\ probe.llm.kind = "object"
    /\ probe.llm.destination = JStr("")
    /\ \E o \in probe.outcomes :
          /\ o.refined
          /\ o.rules.destination = Some("Paris")
          /\ Val(o.merged).destination = Some("Paris")
\* the candidates of a list whose lower-cased name is not in a rejected set
NotRejected(candidates, rejected) ==
    SelectSeq(candidates, LAMBDA c : str_lower(c.destination) \notin rejected)
\* the lower-cased destination names of a list of candidates or recommendations
LoweredNames(list) == {str_lower(list[i].destination) : i \in 1..Len(list)}

\* C7: when max_flight_hours is the no-limit sentinel -1, validate_candidates
\* removes no candidate because of its estimated_flight_hours: every candidate
\* that is not rejected survives, and run does not return no_results while a
\* built candidate is not rejected.
C7_NoLimitUnconstrained ==
    /\ (probe.fn = "validate_candidates" /\ probe.max_flight_hours = Some(NoLimit)) =>
          probe.filtered = NotRejected(probe.candidates, probe.rejected_destinations)
    /\ \A r \in ReturnedRuns :
          (r.parsed.max_flight_hours = Some(NoLimit) /\ r.status = "no_results") =>
              NotRejected(r.built, r.memory_before.rejected_destinations) = <<>>

\* C8: validate_candidates removes every candidate whose lower-cased name is in
\* the rejected set, whatever its other fields, and keeps the others in order
\* unless the flight limit removes them; no ok outcome of run recommends a
\* destination whose lower-cased name is in the session's rejected set.
C8_RejectedExcluded ==
    /\ probe.fn = "validate_candidates" =>
          /\ LoweredNames(probe.filtered) \cap probe.rejected_destinations = {}
          /\ probe.max_flight_hours = None =>
                probe.filtered = NotRejected(probe.candidates, probe.rejected_destinations)
    /\ \A r \in ReturnedRuns :
          r.status = "ok" =>
              /\ r.recommendations # <<>>
              /\ LoweredNames(r.recommendations) \cap r.memory_before.rejected_destinations = {}
              /\ LoweredNames(r.recommendations) \cap r.memory.rejected_destinations = {}

\* C8 witness: run built Lisbon and Bangkok, both rejected, and recommends others
C8_Witness ==
    \E r \in ReturnedRuns :
        /\ r.status = "ok"
        /\ {"lisbon", "bangkok"} \subseteq r.memory_before.rejected_destinations
        /\ {"lisbon", "bangkok"} \subseteq LoweredNames(r.built)
        /\ Len(r.recommendations) = 3

\* a step that handles negative feedback on the recommendations shown
NegativeFeedbackStep ==
    /\ turn'.handler \in {"feedback", "quick_feedback"}
    /\ FeedbackRejects(str_lower(turn'.input))
    /\ last_recommendations # <<>>

\* C9: negative feedback after an ok outcome puts the lower-cased name of every
\* destination last recommended into memory.rejected_destinations; no later step
\* removes a name from that set; the regeneration run is on the last query and
\* neither it nor any later ok outcome recommends a rejected destination.
C9_RejectedStay ==
    [][/\ NegativeFeedbackStep =>
             /\ LoweredNames(last_recommendations) \subseteq memory'.rejected_destinations
             /\ turn'.run # NoRun =>
                   /\ Val(turn'.run).user_text = Val(last_query)
                   /\ (~Val(turn'.run).raised /\ Val(turn'.run).status = "ok") =>
                         /\ last_recommendations' = Val(turn'.run).recommendations
                         /\ LoweredNames(last_recommendations')
                                \cap LoweredNames(last_recommendations) = {}
       /\ memory.rejected_destinations \subseteq memory'.rejected_destinations
       /\ (turn'.run # NoRun /\ ~Val(turn'.run).raised /\ Val(turn'.run).status = "ok") =>
             LoweredNames(Val(turn'.run).recommendations)
                 \cap memory'.rejected_destinations = {}
      ]_vars

\* C9 witness: "I didn't like any of these" rejected the three recommendations
\* and the regeneration run on the last query recommended three others
C9_Witness ==
    /\ turn.handler = "feedback"
    /\ turn.input = "I didn't like any of these"
    /\ turn.reply = "regenerated"
    /\ Val(turn.run).user_text = Val(last_query)
    /\ Cardinality(memory.rejected_destinations) = 3
    /\ Len(last_recommendations) = 3
    /\ LoweredNames(last_recommendations) \cap memory.rejected_destinations = {}

\* the names of the fixed ski-resort seed list
SkiResorts == {"Innsbruck", "Aspen", "Chamonix", "Sapporo", "Queenstown"}

\* C10: for "I want to go skiing in December" with the origin set, the parsed
\* intent is activity_based_discovery with activity skiing and date december, no
\* weather question is asked, and the candidates are built from the ski-resort
\* seed list, not from a geocoded destination.
C10_SkiSeeds ==
    \A r \in ObservedRuns :
        (r.user_text = "I want to go skiing in December" /\ has_origin(r.memory_before)) =>
            /\ r.parsed.intent = "activity_based_discovery"
            /\ IsSkiing(r.parsed)
            /\ r.parsed.travel_date_or_month = Some("december")
            /\ r.status # "needs_weather_preference"
            /\ r.seeds_from = "ski"
            /\ \A i \in 1..Len(r.built) : r.built[i].destination \in SkiResorts
\* the origin of a memory is whole: both parts non-empty, or both unset
OriginWhole(mem) ==
    \/ mem.origin_city = None /\ mem.origin_country = None
    \/ /\ mem.origin_city # None /\ Val(mem.origin_city) # ""
       /\ mem.origin_country # None /\ Val(mem.origin_country) # ""
\* the memories the current state holds: the session's, and those a call returned
ObservedMemories ==
    {memory} \cup {r.memory : r \in ObservedRuns}
        \cup (IF probe.fn = "handle_chat_onboarding" THEN {probe.outcome.memory} ELSE {})

\* C11: in every reachable session memory, origin_city and origin_country are
\* both non-empty or both unset; no onboarding message, whatever the geocoder
\* answers, leaves exactly one of them non-empty.
C11_OriginWhole == \A mem \in ObservedMemories : OriginWhole(mem)

\* C11 witness: a message with an empty part was refused although the geocoder
\* had a confident answer for it
C11_Witness ==
    /\ probe.fn = "handle_chat_onboarding"
    /\ probe.user_input = ", Israel"
    /\ probe.geo = "ok"
    /\ probe.memory = NewSessionMemory
    /\ probe.outcome.reply = "origin_parts"
    /\ probe.outcome.memory = NewSessionMemory
\* C12: in the chat session run is never invoked while the memory has no origin:
\* every message is consumed by onboarding until an origin is saved; once the
\* origin is set, no step changes it.
C12_OnboardingFirst ==
    [][/\ ~has_origin(memory) => (turn'.handler = "onboarding" /\ turn'.run = NoRun)
       /\ turn'.run # NoRun => has_origin(memory)
       /\ has_origin(memory) =>
             /\ memory'.origin_city = memory.origin_city
             /\ memory'.origin_country = memory.origin_country
      ]_vars
\* C13: when run raises during a query turn, the caller answers with the
\* temporary-issue message and the session memory after the turn is the memory
\* before the turn, preferred_weather and the last_* context included.
C13_AbandonedTurn ==
    [][(turn'.handler = "turn" /\ Val(turn'.run).raised) =>
          /\ turn'.reply = "temporary_issue"
          /\ memory' = memory
      ]_vars

\* what a run returned, apart from its wording
RunResult(r) == <<r.raised, r.status, r.recommendations>>
\* the tenths that are a rounding of a score in hundredths to one decimal
StatedRounded(score) == {t \in (score \div 10)..(score \div 10 + 1) : Abs(10 * t - score) <= 5}
\* the probed call of run with a final_summary call that succeeds
WithWorkingSummary ==
    AgentOrchestrator_run(probe.user_text, probe.memory,
                          [probe.env EXCEPT !.summary = SummaryReply(JStr("Fine."))])

\* C14: when the final_summary call raises or returns content that does not
\* parse, a run that reached the summary does not raise and returns ok, its
\* recommendations are those of the same call with a working summary, and its
\* summary starts with "Best current match is <destination of the first
\* recommendation> with score <its score rounded to one decimal>."
C14_SummaryFallback ==
    (probe.fn = "run" /\ probe.env.summary.kind # "object") =>
        /\ {RunResult(r) : r \in probe.outcomes} = {RunResult(r) : r \in WithWorkingSummary}
        /\ \A r \in probe.outcomes :
              r.filtered # <<>> =>
                /\ ~r.raised
                /\ r.status = "ok"
                /\ \E t \in StatedRounded(r.recommendations[1].score) :
                      StartsAt(r.summary,
                               "Best current match is " \o r.recommendations[1].destination
                                   \o " with score " \o FormatTenths(t) \o ".", 1)
C14_Witness ==
    /\ probe.fn = "run"
    /\ probe.env.summary = SummaryRaises
    /\ probe.env.llm = LlmNulls
    /\ \E r \in probe.outcomes :
          /\ r.status = "ok"
          /\ Len(r.recommendations) = 3
          /\ StartsAt(r.summary, "Best current match is ", 1)

\* the candidates of a built list that pass the filter as the specification
\* states it: not rejected, and not estimated above a flight limit
StatedSurvivors(r) ==
    SelectSeq(r.built, LAMBDA c :
        /\ str_lower(c.destination) \notin r.memory_before.rejected_destinations
        /\ ~(/\ r.parsed.max_flight_hours # None
             /\ c.estimated_flight_hours # None
             /\ Val(c.estimated_flight_hours) > Val(r.parsed.max_flight_hours)))
\* a scored candidate without what scoring added
Unscored(rec) == [k \in DOMAIN rec \ {"score", "score_breakdown"} |-> rec[k]]
\* how often a value occurs in a list
CountIn(seq, x) == Cardinality({i \in DOMAIN seq : seq[i] = x})
\* two lists with the same elements, each as often
SameElements(a, b) ==
    /\ Len(a) = Len(b)
    /\ \A i \in DOMAIN a : CountIn(a, a[i]) = CountIn(b, a[i])
\* the runs that returned after the two questions
RankedRuns == {r \in ReturnedRuns : r.status \in {"ok", "no_results"}}

\* C15: a run that gets past the questions returns no_results exactly when no
\* built candidate survives filtering and ok otherwise; in an ok outcome the
\* ranked list holds exactly the survivors, each with a score that is the sum
\* of its five breakdown terms, in non-increasing order of score, and the
\* recommendations are its first three entries (all of them when fewer).
C15_RankedSurvivors ==
    \A r \in RankedRuns :
        /\ r.status = "no_results" <=> StatedSurvivors(r) = <<>>
        /\ r.status = "ok" =>
              /\ SameElements([i \in DOMAIN r.scored |-> Unscored(r.scored[i])],
                              StatedSurvivors(r))
              /\ \A i \in DOMAIN r.scored :
                    /\ r.scored[i].score =
                          r.scored[i].score_breakdown.activity_fit
                            + r.scored[i].score_breakdown.weather_fit
                            + r.scored[i].score_breakdown.flight_feasibility
                            + r.scored[i].score_breakdown.diversity_novelty
                            + r.scored[i].score_breakdown.like_bonus
                    /\ i > 1 => r.scored[i - 1].score >= r.scored[i].score
              /\ Len(r.recommendations) = Min(3, Len(r.scored))
              /\ \A i \in DOMAIN r.recommendations : r.recommendations[i] = r.scored[i]
\* C15 witness: more than three candidates survived, built in another order
\* than that of their scores, and three are recommended
C15_Witness ==
    \E r \in RankedRuns :
        /\ r.status = "ok"
        /\ Len(StatedSurvivors(r)) > 3
        /\ Len(r.recommendations) = 3
        /\ \E i, j \in DOMAIN r.scored :
              i < j /\ r.scored[i].score > r.scored[j].score
                    /\ \E a, b \in DOMAIN r.built :
                          /\ a > b
                          /\ r.built[a] = Unscored(r.scored[i])
                          /\ r.built[b] = Unscored(r.scored[j])

\* hundredths of a score point for a number of hours given in tenths
PerHour(points, tenths) == points * 10 * tenths

\* C16: flight_feasibility of a scored candidate, in hundredths: with an
\* estimate and a non-null limit it is 20 when the estimate is at most the
\* limit and max(0, 20 - 8 * H) when the estimate is H hours above it; without
\* an estimate it is 8; with an estimate and no limit it is 20 - 1.6 * estimate
\* clamped to [0, 20].
C16_FlightFeasibility ==
    probe.fn = "score_candidate" =>
        Bind(probe.candidate.estimated_flight_hours, LAMBDA est :
        Bind(probe.max_flight_hours, LAMBDA limit :
        Bind(probe.scored.score_breakdown.flight_feasibility, LAMBDA fit :
            /\ (est # None /\ limit # None /\ Val(est) <= Val(limit)) => fit = 2000
            /\ (est # None /\ limit # None /\ Val(est) > Val(limit)) =>
                  fit = Max(0, 2000 - PerHour(8, Val(est) - Val(limit)))
            /\ est = None => fit = 800
            /\ (est # None /\ limit = None) =>
                  fit = Max(0, Min(2000, 2000 - (16 * Val(est)))))))
\* C16 witness: an estimate of 1.0 hours with the limit 0 is one hour above
\* the limit and scores 12
C16_Witness ==
    /\ probe.fn = "score_candidate"
    /\ probe.candidate.estimated_flight_hours = Some(Tenths(1))
    /\ probe.max_flight_hours = Some(0)
    /\ probe.scored.score_breakdown.flight_feasibility = 1200

\* the probed candidate with another poi_count, and with another rain
WithPoiCount(n) == [probe.candidate EXCEPT !.poi_count = n]
WithRain(r) == [probe.candidate EXCEPT !.rain = r]

\* C17: for the probed activity, season and weather preference, a candidate
\* that differs only by a larger poi_count has no smaller activity_fit, and one
\* that differs only by more rain has no larger weather_fit; activity_fit lies
\* in [0, 40] and weather_fit in [0, 30] (in hundredths).
C17_Monotonic ==
    probe.fn = "score_candidate" =>
        Bind(probe.scored.score_breakdown, LAMBDA fits :
            /\ \A n \in PoiCounts :
                  n > probe.candidate.poi_count =>
                      score_candidate(WithPoiCount(n), probe.activity, probe.preferred_weather,
                                      probe.max_flight_hours, probe.season,
                                      <<>>).score_breakdown.activity_fit >= fits.activity_fit
            /\ \A r \in RainAmounts :
                  r > probe.candidate.rain =>
                      score_candidate(WithRain(r), probe.activity, probe.preferred_weather,
                                      probe.max_flight_hours, probe.season,
                                      <<>>).score_breakdown.weather_fit <= fits.weather_fit
            /\ fits.activity_fit >= 0 /\ fits.activity_fit <= 4000
            /\ fits.weather_fit >= 0 /\ fits.weather_fit <= 3000)
\* C17 witness: skiing in winter with 141 points of interest, where the bonus
\* of 12 is cut at 40, and a drier candidate scored for a warm preference
C17_Witness ==
    /\ probe.fn = "score_candidate"
    /\ probe.candidate.poi_count = 141
    /\ probe.activity = Some("Skiing")
    /\ probe.season = "winter"
    /\ probe.preferred_weather = Some("warm")
    /\ probe.scored.score_breakdown.activity_fit = 4000
    /\ \E r \in RainAmounts : r > probe.candidate.rain

\* texts with the tags `destination: X | activity: Y`: what precedes the tags, X and Y
TagCases ==
    {<<"", "Paris", "Hiking">>,
     <<"i want to go skiing in rome | ", "paris", "hiking">>}
TaggedText(c) == c[1] \o "destination: " \o c[2] \o " | activity: " \o c[3]
\* the rule-based results of the probed parse of a text
RulesOf(user_text) ==
    IF probe.fn = "parse" /\ probe.user_text = user_text
    THEN {o.rules : o \in probe.outcomes} ELSE {}

\* C18: for a text that holds the tags `destination: X | activity: Y`, the
\* rule-based parser returns destination X and activity Y exactly as written,
\* whatever the freeform patterns and the ski keyword find in the rest.
C18_ExplicitTags ==
    \A c \in TagCases :
        \A rules \in RulesOf(TaggedText(c)) :
            /\ rules.destination = Some(c[2])
            /\ rules.activity = Some(c[3])

\* the last step was a user turn in which run returned needs_clarification
AskedForSlot ==
    /\ turn.handler = "turn"
    /\ ~Val(turn.run).raised
    /\ Val(turn.run).status = "needs_clarification"
\* the answer `message` resent for slot S with the draft
TaggedResend(draft, slot, message) == draft \o " | " \o slot \o ": " \o message
\* this step passes a user message to run
PassesMessageToRun == turn'.handler = "turn"

\* C19 as stated: when run has just returned needs_clarification with
\* missing_slot S, a next message that is passed to run is submitted as the
\* query that was asked about followed by " | S: <message>", and the pending
\* slot and draft are no longer those of the question.
C19_AsStated ==
    [][(AskedForSlot /\ PassesMessageToRun) =>
          /\ Val(turn'.run).user_text =
                TaggedResend(Val(turn.run).user_text, Val(Val(turn.run).missing_slot),
                             turn'.input)
      ]_vars

\* a message that drops the pending clarification: it looks like a new travel
\* query and not like an answer to the slot asked
DropsClarification(message) ==
    /\ looks_like_new_travel_query(message)
    /\ ~is_clarification_like_answer(message, pending_clarification_slot)
\* what this step's run leaves as pending slot and draft
SlotLeftByRun(r) ==
    IF ~r.raised /\ r.status = "needs_clarification" THEN r.missing_slot ELSE None
DraftLeftByRun(r) ==
    IF ~r.raised /\ r.status \in {"needs_clarification", "needs_weather_preference"}
    THEN Some(r.user_text) ELSE None

\* C19 amended: after run returns needs_clarification with missing_slot S the
\* caller holds S as pending slot and the submitted query as draft.  While a
\* slot is pending, a message that is passed to run is submitted as the draft
\* followed by " | S: <message>", unless it looks like a new travel query and
\* not like an answer to S: then it is submitted as typed.  Either way the
\* pending slot and draft are consumed: after the step they are unset or those
\* of the new outcome.  A short acknowledgement drops both without a run.
C19_TaggedResend ==
    [][/\ (turn'.handler = "turn" /\ ~Val(turn'.run).raised
             /\ Val(turn'.run).status = "needs_clarification") =>
             /\ pending_clarification_slot' = Val(turn'.run).missing_slot
             /\ draft_query' = Some(Val(turn'.run).user_text)
       /\ (Truthy(pending_clarification_slot) /\ PassesMessageToRun) =>
             /\ Val(turn'.run).user_text =
                   IF DropsClarification(turn'.input) THEN turn'.input
                   ELSE TaggedResend(Val(draft_query), Val(pending_clarification_slot),
                                     turn'.input)
             /\ pending_clarification_slot' = SlotLeftByRun(Val(turn'.run))
             /\ draft_query' = DraftLeftByRun(Val(turn'.run))
       /\ turn'.handler = "acknowledgement" =>
             pending_clarification_slot' = None /\ draft_query' = None
      ]_vars
\* C19 witness: the answer "warm" to the question about the date of the query
\* "warm" was resent tagged; the slot is consumed and the weather question
\* keeps the resent text as draft
C19_Witness ==
    /\ turn.handler = "turn"
    /\ turn.input = "warm"
    /\ Val(turn.run).user_text = "warm | travel_date_or_month: warm"
    /\ Val(turn.run).status = "needs_weather_preference"
    /\ pending_clarification_slot = None
    /\ draft_query = Some("warm | travel_date_or_month: warm")

\* the values capture_weather_preference stores
StoredWeathers == {"cold", "mild", "warm", "no_preference"}
\* a weather preference is stored in the session memory
WeatherStored == memory.preferred_weather # None /\ Val(memory.preferred_weather) \in StoredWeathers

\* C20: once a weather preference is stored in the session memory, no step
\* resets it to unset, and no call of run made from then on, for a message or
\* for a regeneration, returns needs_weather_preference.
C20_WeatherStays ==
    [][WeatherStored =>
          /\ memory'.preferred_weather # None
          /\ Val(memory'.preferred_weather) \in StoredWeathers
          /\ (turn'.run # NoRun /\ ~Val(turn'.run).raised) =>
                Val(turn'.run).status # "needs_weather_preference"
      ]_vars
\* C20 witness: with the preference "warm" stored before the call, a user turn
\* ran a query that carries no weather tag and returned ok
C20_Witness ==
    /\ turn.handler = "turn"
    /\ Val(turn.run).memory_before.preferred_weather = Some("warm")
    /\ turn.input = "Where should I go in July?"
    /\ Val(turn.run).user_text = turn.input
    /\ Val(turn.run).status = "ok"
    /\ WeatherStored

\* the conditions of the carry-over as the specification states them: no
\* destination parsed, a text of at most 4 tokens, a date or month extracted,
\* and a destination left by the previous turn
CarriesOver(r) ==
    /\ r.parse_result.destination = None
    /\ TokenCount(str_strip(r.parse_result.raw_text, WhiteSpace)) <= 4
    /\ r.parse_result.travel_date_or_month # None
    /\ r.memory_before.last_destination # None

\* C21: the intent run works with is the intent parse returned with its
\* destination replaced by memory.last_destination when the parsed destination
\* is null, the raw text has at most 4 tokens, a date or month was extracted and
\* last_destination is set; in every other case it is the intent parse
\* returned, so that a parsed destination is never replaced.
C21_CarryOver ==
    \A r \in ObservedRuns :
        /\ CarriesOver(r) =>
              r.parsed = [r.parse_result EXCEPT !.destination = r.memory_before.last_destination]
        /\ ~CarriesOver(r) => r.parsed = r.parse_result
        /\ r.parse_result.destination # None => r.parsed.destination = r.parse_result.destination
\* C21 witness: "may" after a turn about Rome is run as a question about Rome
C21_Witness ==
    \E r \in ObservedRuns :
        /\ r.user_text = "may"
        /\ r.parse_result.destination = None
        /\ r.memory_before.last_destination = Some("Rome")
        /\ r.parsed.destination = Some("Rome")

\* the runs whose parsed activity carries a weather tag
TaggedRuns == {r \in ObservedRuns : WeatherTag(r.parsed) # None}
\* the weather points of a candidate for a preference, as the specification
\* states them, in hundredths: 20 less 1.2 per millimetre of rain (at most 10),
\* plus 10 less the distance of the average temperature from the target
\* (8 cold, 18 mild, 27 warm), at least 0
StatedWeatherFit(c, weather) ==
    Bind(IF weather = "cold" THEN 8 ELSE IF weather = "mild" THEN 18 ELSE 27, LAMBDA target :
        (2000 - Min(1000, c.rain * 12))
            + Max(0, 1000 - 50 * Abs(c.max_temp + c.min_temp - 2 * target)))

\* C22: when the parsed activity carries a weather tag, the effective weather
\* preference of the call is the tagged value, whatever is stored: the weather
\* question is not asked, every built candidate has the tagged value as
\* preferred_weather, every weather_fit is the score for the tagged value, and
\* memory.preferred_weather is after the call what it was before.
C22_TagOverrides ==
    \A r \in TaggedRuns :
        /\ r.effective_weather_pref = WeatherTag(r.parsed)
        /\ ~r.raised => r.status # "needs_weather_preference"
        /\ \A i \in DOMAIN r.built : r.built[i].preferred_weather = WeatherTag(r.parsed)
        /\ \A i \in DOMAIN r.scored :
              /\ r.scored[i].preferred_weather = WeatherTag(r.parsed)
              /\ r.scored[i].score_breakdown.weather_fit =
                    StatedWeatherFit(r.scored[i], Val(WeatherTag(r.parsed)))
        /\ r.memory.preferred_weather = r.memory_before.preferred_weather
\* C22 witness: a query for a cold place, run with "warm" stored, returned ok
C22_Witness ==
    \E r \in TaggedRuns :
        /\ WeatherTag(r.parsed) = Some("cold")
        /\ r.memory_before.preferred_weather = Some("warm")
        /\ r.status = "ok"
        /\ r.memory.preferred_weather = Some("warm")

\* the calls of parse the current state records, each with its outcome
ObservedParses ==
    (IF probe.fn = "parse" THEN probe.outcomes ELSE {})
        \cup {[result |-> r.parse_result, refined |-> r.refined, rules |-> r.rules,
               merged |-> r.merged] : r \in ObservedRuns}
\* the record parse normalises: the merged one, or the rule-based one
BeforeNormalize(o) == IF o.merged # None THEN Val(o.merged) ELSE o.rules
\* constraint-based discovery for a named destination without a flight limit
ConstraintPathForDestination(parsed) ==
    /\ parsed.intent = "constraint_based_discovery"
    /\ parsed.destination # None
    /\ parsed.max_flight_hours = None

\* C23: no intent returned by parse is constraint_based_discovery with a
\* non-null destination and a null max_flight_hours; when the record parse
\* normalises is such a combination and its destination is returned (it is
\* dropped when it is a generic phrase such as "anywhere"), the returned intent
\* is destination_opinion.
C23_NoConstraintPathForDestination ==
    \A o \in ObservedParses :
        /\ ~ConstraintPathForDestination(o.result)
        /\ (ConstraintPathForDestination(BeforeNormalize(o)) /\ o.result.destination # None) =>
              /\ o.result.intent = "destination_opinion"
              /\ o.result.destination = BeforeNormalize(o).destination
\* C23 witness: the merged record was such a combination and was demoted
C23_Witness ==
    \E o \in ObservedParses :
        /\ o.refined
        /\ ConstraintPathForDestination(Val(o.merged))
        /\ o.result.intent = "destination_opinion"
        /\ o.result.destination = Val(o.merged).destination

\* texts with a no-limit phrase; the second also holds a number of hours and a
\* max_flight_hours tag
NoLimitTexts ==
    {"Where should I go? July, no flight limit",
     "Paris, max flight 4.5 hours, no limit | max_flight_hours: 3"}

\* C24: an intent returned by parse whose max_flight_hours is the sentinel -1
\* has the intent constraint_based_discovery, whatever the rule-based and the
\* merged records held; the rule-based parse of a text with a no-limit phrase
\* has max_flight_hours = -1, also when the text holds a number of hours and a
\* max_flight_hours tag.
C24_NoLimitForcesDiscovery ==
    /\ \A o \in ObservedParses :
          o.result.max_flight_hours = Some(NoLimit) =>
              o.result.intent = "constraint_based_discovery"
    /\ \A text \in NoLimitTexts :
          \A rules \in RulesOf(text) : rules.max_flight_hours = Some(NoLimit)
\* C24 witness: a text with a destination, "max flight 4.5 hours", "no limit"
\* and the tag 3, refined with the intent activity_based_discovery, is returned
\* as constraint_based_discovery with -1
C24_Witness ==
    /\ probe.fn = "parse"
    /\ probe.user_text = "Paris, max flight 4.5 hours, no limit | max_flight_hours: 3"
    /\ \E o \in probe.outcomes :
          /\ o.refined
          /\ Val(o.merged).intent = "activity_based_discovery"
          /\ o.rules.max_flight_hours = Some(NoLimit)
          /\ o.result.max_flight_hours = Some(NoLimit)
          /\ o.result.intent = "constraint_based_discovery"

\* values and the season the specification gives them: month names by the
\* table, dates by their month field, anything else unknown
SeasonCases ==
    {<<"december", "winter">>, <<"January", "winter">>, <<"march", "spring">>,
     <<"MAY", "spring">>, <<"july", "summer">>, <<"october", "autumn">>,
     <<"soon", "unknown">>, <<"", "unknown">>, <<"2026", "unknown">>,
     <<"15.07.2026", "summer">>, <<"1-12-26", "winter">>, <<"15.13.2026", "unknown">>,
     <<"15.0.2026", "unknown">>, <<"15.x.2026", "unknown">>}
\* texts with a date D[./-]M[./-]YY and the season of its month
DateCases ==
    {<<"trip to Rome 15.07.2026", "summer">>, <<"trip to Rome 15/07/2026", "summer">>,
     <<"trip to Rome 3-3-27", "spring">>, <<"trip to Rome 1.12/26", "winter">>}

\* C25: season_from_date_or_month gives a month name the season of the table,
\* a numeric date the season of its month field, and unknown to every value
\* that is neither a month name nor a date with a month from 1 to 12; the date
\* the parser extracts from a text gets the season of its month.
C25_Seasons ==
    probe.fn = "season_from_date_or_month" =>
        /\ \A c \in SeasonCases :
              probe.travel_date_or_month = c[1] => probe.season = c[2]
        /\ \A c \in DateCases :
              probe.travel_date_or_month = Val(_extract_date_or_month(c[1])) =>
                  probe.season = c[2]

\* the scored candidates the current state records, each with the liked
\* profiles it was scored against
ObservedScores ==
    UNION {{[scored |-> r.scored[i], liked_profiles |-> r.memory_before.liked_profiles] :
              i \in DOMAIN r.scored} : r \in ObservedRuns} \cup
    (IF probe.fn = "score_candidate"
     THEN {[scored |-> probe.scored, liked_profiles |-> <<>>]} ELSE {})
\* the bonus as the specification states it, in hundredths
StatedLikeBonus(c, liked_profiles) ==
    IF \E i \in DOMAIN liked_profiles :
          \/ liked_profiles[i].activity = c.activity
          \/ liked_profiles[i].preferred_weather = c.preferred_weather
    THEN 300 ELSE 0
\* feedback that is positive about the first recommendation
PositiveAboutFirst == {"like 1", "I like the first one"}

\* C26: like_bonus of a scored candidate is 3 when a liked profile has its
\* activity or its preferred_weather, else 0; apply_feedback appends a profile
\* only on positive feedback about the first recommendation, and the profile
\* holds that recommendation's destination, activity and the weather
\* preference it was recommended under.
C26_LikeBonus ==
    /\ \A s \in ObservedScores :
          s.scored.score_breakdown.like_bonus = StatedLikeBonus(s.scored, s.liked_profiles)
    /\ probe.fn = "apply_feedback" =>
          probe.memory_after.liked_profiles =
              IF probe.feedback_text \in PositiveAboutFirst
              THEN Append(probe.memory.liked_profiles,
                          [destination |-> probe.recommendations[1].destination,
                           activity |-> probe.recommendations[1].activity,
                           preferred_weather |-> probe.recommendations[1].preferred_weather])
              ELSE probe.memory.liked_profiles

\* a text field that holds something
HoldsText(field) == field # None /\ Val(field) # ""
\* the memory after update_from_parsed as the specification states it: each
\* last-turn field takes the parsed value when there is one, nothing else changes
StatedUpdate(mem, parsed) ==
    [origin_city |-> mem.origin_city,
     origin_country |-> mem.origin_country,
     preferred_weather |-> mem.preferred_weather,
     rejected_destinations |-> mem.rejected_destinations,
     liked_profiles |-> mem.liked_profiles,
     last_destination |->
         IF HoldsText(parsed.destination) THEN parsed.destination ELSE mem.last_destination,
     last_travel_date_or_month |->
         IF HoldsText(parsed.travel_date_or_month) THEN parsed.travel_date_or_month
         ELSE mem.last_travel_date_or_month,
     last_activity |->
         IF HoldsText(parsed.activity) THEN parsed.activity ELSE mem.last_activity,
     last_max_flight_hours |->
         IF parsed.max_flight_hours # None THEN parsed.max_flight_hours
         ELSE mem.last_max_flight_hours]

\* C27: a call of run that returns needs_clarification, needs_weather_preference
\* or no_results, or that raises, leaves the memory as it was; a call that
\* returns ok leaves the memory update_from_parsed makes of it for the intent it
\* worked with; origin_city, origin_country, preferred_weather,
\* rejected_destinations and liked_profiles are the same after any call.
C27_RunFrame ==
    \A r \in ObservedRuns :
        /\ (r.raised \/ r.status # "ok") => r.memory = r.memory_before
        /\ (~r.raised /\ r.status = "ok") => r.memory = StatedUpdate(r.memory_before, r.parsed)
        /\ r.memory.origin_city = r.memory_before.origin_city
        /\ r.memory.origin_country = r.memory_before.origin_country
        /\ r.memory.preferred_weather = r.memory_before.preferred_weather
        /\ r.memory.rejected_destinations = r.memory_before.rejected_destinations
        /\ r.memory.liked_profiles = r.memory_before.liked_profiles
\* C27 witness: an ok outcome for a query without a destination, after a turn
\* about Rome: the date is replaced and the destination kept
C27_Witness ==
    \E r \in ObservedRuns :
        /\ r.status = "ok"
        /\ r.parsed.destination = None
        /\ r.memory_before.last_destination = Some("Rome")
        /\ r.memory.last_destination = Some("Rome")
        /\ r.memory.last_travel_date_or_month = Some("july")
        /\ r.memory_before.last_travel_date_or_month = Some("15.07.2026")

\* the destinations of a list, in order
NamesOf(list) == [i \in DOMAIN list |-> list[i].destination]
\* the place of a scored candidate in the list that was built
BuiltIndex(r, c) == CHOOSE k \in DOMAIN r.built : r.built[k] = Unscored(c)
\* the rankings the current state records: the list built and the list sorted
ObservedRankings ==
    {[built |-> r.built, scored |-> r.scored] : r \in ObservedRuns}
        \cup (IF probe.fn = "rank"
              THEN {[built |-> probe.built, scored |-> probe.scored]} ELSE {})
\* the probed call of run in a session without liked profiles
WithoutLikes ==
    AgentOrchestrator_run(probe.user_text, [probe.memory EXCEPT !.liked_profiles = <<>>],
                          probe.env)

\* C28: in one run every built candidate carries the parsed activity and the
\* effective weather preference, and like_bonus is the same for every scored
\* candidate; the recommendations are, by name and order, those of the same
\* call without liked profiles; scored candidates with equal scores are in the
\* order in which they were built.
C28_LikesKeepOrder ==
    /\ \A r \in ObservedRuns :
          /\ \A i \in DOMAIN r.built :
                /\ r.built[i].activity = r.parsed.activity
                /\ r.built[i].preferred_weather = r.effective_weather_pref
    /\ \A r \in ObservedRankings :
          \A i, j \in DOMAIN r.scored :
                /\ r.scored[i].score_breakdown.like_bonus
                      = r.scored[j].score_breakdown.like_bonus
                /\ (i < j /\ r.scored[i].score = r.scored[j].score) =>
                      BuiltIndex(r, r.scored[i]) < BuiltIndex(r, r.scored[j])
    /\ probe.fn = "run" =>
          {<<r.raised, r.status, NamesOf(r.recommendations)>> : r \in probe.outcomes}
              = {<<r.raised, r.status, NamesOf(r.recommendations)>> : r \in WithoutLikes}
\* C28 witness: with a liked profile three candidates are recommended, each with
\* the bonus 3
C28_Witness ==
    /\ probe.fn = "run"
    /\ probe.memory.liked_profiles # <<>>
    /\ \E r \in probe.outcomes :
          /\ r.status = "ok"
          /\ Len(r.recommendations) = 3
          /\ \A i \in DOMAIN r.scored : r.scored[i].score_breakdown.like_bonus = 300

-----------------------------------------------------------------------------
\* C29: at the end of a turn the pending clarification slot and the pending
\* weather question are never both set, and every call of orchestrator.run is
\* made while both are cleared.
C29_QuestionsExclusive ==
    /\ ~(pending_clarification_slot # <<>> /\ pending_weather_question)
    /\ turn.run # <<>> =>
          /\ turn.invoked_with[1].pending_clarification_slot = <<>>
          /\ turn.invoked_with[1].pending_weather_question = FALSE

\* C30: while the weather question is pending at the end of a turn, draft_query
\* holds a query, and a message that is a valid weather answer (cold, mild,
\* warm, no preference) is handled by storing the preference and running that
\* draft through orchestrator.run in the same turn.
C30_AnswerReruns ==
    [][/\ pending_weather_question' => draft_query' # <<>>
       /\ (pending_weather_question
             /\ turn'.input \in {"cold", "mild", "warm", "no preference"}) =>
            /\ memory'.preferred_weather # <<>>
            /\ draft_query # <<>>
            /\ turn'.run # <<>>
            /\ turn'.run[1].user_text = draft_query[1]]_vars

=============================================================================
